---- MODULE Spec2Model ----
(***************************************************************************)
(* Model of the reflection-loop recommender: ReflectionEngine.recommend    *)
(* (src/src/core/reflection_engine.py) with the collaborators it awaits:   *)
(* LLMClient.extract_needs / reflect_and_adjust, DataProcessor's           *)
(* fetch_matching_tickets, RecommendationEvaluator.evaluate, and the       *)
(* pydantic models UserNeeds / Recommendation.                             *)
(*                                                                         *)
(* One request is one run of recommend; every awaited step of the          *)
(* coroutine is one action.  LLM responses are inputs drawn from small     *)
(* sets; uuid4 values are modelled by a fresh counter.                     *)
(*                                                                         *)
(* Spec      one run of ReflectionEngine.recommend                         *)
(* SpecRank  one call of DataProcessor.rank_tickets                        *)
(* SpecEval  one call of RecommendationEvaluator.evaluate                  *)
(* SpecScore one construction of a RecommendationScore                     *)
(* SpecHeap  the UserNeeds objects of one run, held by reference           *)
(* SpecSuggest the suggestion step of evaluate                             *)
(* SpecBuild the options of one Recommendation, from its construction on   *)
(* SpecPair  two requests interleaved on one engine                        *)
(***************************************************************************)
EXTENDS Integers, Sequences, FiniteSets, TLC

\* ------------------------------------------------------------------ bounds
\* Largest max_iterations the engine is constructed with.
MaxIterations == 2

\* ------------------------------------------------------- program constants
\* ReflectionEngine.__init__ default score_threshold (85.0).
score_threshold == 85
\* generate_recommendations keeps ranked_tickets[:10].
MaxOptions == 10

Min(a, b) == IF a < b THEN a ELSE b

\* Python None in a list-typed field (a JSON null the LLM put there).
None == <<"None">>

\* ------------------------------------------------------------ UserNeeds
\* UserNeeds.check_priorities: an empty priorities list becomes [price].
check_priorities(priorities) ==
    IF priorities = <<>> THEN <<"price">> ELSE priorities

\* UserNeeds(**needs_dict): construction runs the validators.
UserNeeds(d) ==
    [departure_city            |-> d.departure_city,
     preferred_transport_types |-> d.preferred_transport_types,
     budget                    |-> [max_price |-> d.max_price],
     departure_time_range      |-> [preferred_time |-> d.preferred_time],
     priorities                |-> check_priorities(d.priorities)]

\* UserNeeds.extract_from_conversation: the fixed default needs.
extract_from_conversation ==
    [departure_city            |-> "Beijing",
     preferred_transport_types |-> <<"flight", "train">>,
     budget                    |-> [max_price |-> 0],
     departure_time_range      |-> [preferred_time |-> "any"],
     priorities                |-> <<"price">>]

\* What the LLM may answer to the needs-extraction prompt.
ExtractResponses ==
    << [kind |-> "raises"], [kind |-> "not_json"], [kind |-> "invalid"],
      [kind |-> "json",
       dict |-> [departure_city |-> "Beijing",
                 preferred_transport_types |-> <<"train">>,
                 max_price |-> 1000, preferred_time |-> "morning",
                 priorities |-> <<>>]],
      [kind |-> "json",
       dict |-> [departure_city |-> "Beijing",
                 preferred_transport_types |-> <<"bus">>,
                 max_price |-> 0, preferred_time |-> "any",
                 priorities |-> <<"time">>]] >>

\* The exception raised inside the try of LLMClient.extract_needs: by the
\* LLM call, by json.loads, or by UserNeeds(**needs_dict) on JSON that does
\* not validate ("invalid").
ExtractRaises(r) ==
    CASE r.kind = "raises"   -> "APIError"
      [] r.kind = "not_json" -> "JSONDecodeError"
      [] r.kind = "invalid"  -> "ValidationError"
      [] OTHER               -> "none"

\* `except json.JSONDecodeError` around the parsing.
InnerExceptCatches(e) == e = "JSONDecodeError"

\* Variant of the outer handler: only API errors are caught.
OuterExceptCatches_ApiOnly(e) == e = "APIError"

\* `except Exception` around the whole of extract_needs.
OuterExceptCatches(e) == e # "none"

\* An exception leaves extract_needs.
extract_needs_escapes(r) ==
    LET e == ExtractRaises(r)
    IN  e # "none" /\ ~InnerExceptCatches(e) /\ ~OuterExceptCatches(e)

\* LLMClient.extract_needs: parsed and validated needs, or the default
\* needs when the call raises or the answer is not JSON.
extract_needs(r) ==
    IF r.kind = "json" THEN UserNeeds(r.dict) ELSE extract_from_conversation

\* ------------------------------------------------------- candidate supply
\* DataProcessor._get_time_slots_from_preference: number of time slots.
TimeSlots(preference) ==
    IF preference \in {"morning", "afternoon", "evening", "night"} THEN 3 ELSE 4

\* DataProcessor._generate_mock_tickets: number of tickets generated for
\* one transport type (10 rounds x time slots x seat classes; other
\* transport types hit `continue` and yield nothing).
MockTicketCount(needs, transport_type) ==
    LET slots == TimeSlots(needs.departure_time_range.preferred_time)
    IN  CASE transport_type = "flight" -> 10 * slots * 4
          [] transport_type = "train"  -> 10 * slots * 6
          [] OTHER -> 0

RECURSIVE SumTickets(_, _)
SumTickets(needs, types) ==
    IF types = <<>> THEN 0
    ELSE MockTicketCount(needs, Head(types)) + SumTickets(needs, Tail(types))

\* DataProcessor.fetch_matching_tickets: the number of candidate tickets,
\* or a fault (TypeError) when preferred_transport_types is not iterable.
fetch_matching_tickets(needs) ==
    IF needs.preferred_transport_types = None
    THEN [fault |-> TRUE, tickets |-> 0]
    ELSE [fault |-> FALSE,
          tickets |-> SumTickets(needs, needs.preferred_transport_types)]

\* ------------------------------------------------------- Recommendation
RecommendationScore(nm, co, pr, ov) ==
    [needs_match_score |-> nm, completeness_score |-> co,
     practicality_score |-> pr, overall_score |-> ov]

ZeroScore == RecommendationScore(0, 0, 0, 0)

\* The local variable `recommendation` before it is first assigned.
NoRecommendation ==
    [recommendation_id |-> 0, status |-> "unbound", options |-> <<>>,
     scores |-> ZeroScore, reflection_iterations |-> 0,
     reflection_history |-> <<>>, metadata |-> "None"]

\* ReflectionEngine.generate_recommendations: a fresh Recommendation with
\* status processing, placeholder zero scores and the top-10 ranked options.
generate_recommendations(id, tickets) ==
    [recommendation_id |-> id, status |-> "processing",
     options |-> [i \in 1..Min(MaxOptions, tickets) |-> [rank |-> i]],
     scores |-> ZeroScore, reflection_iterations |-> 0,
     reflection_history |-> <<>>, metadata |-> "None"]

\* The Recommendation returned when the initial sourcing finds nothing.
EmptyRecommendation(id) ==
    [recommendation_id |-> id, status |-> "failed", options |-> <<>>,
     scores |-> ZeroScore, reflection_iterations |-> 0,
     reflection_history |-> <<>>, metadata |-> "None"]

\* The Recommendation built by the except handler of recommend.
ErrorRecommendation(id) ==
    [recommendation_id |-> id, status |-> "failed", options |-> <<>>,
     scores |-> ZeroScore, reflection_iterations |-> 0,
     reflection_history |-> <<>>, metadata |-> "error"]

\* Recommendation.add_reflection.
add_reflection(rec, feedback) ==
    [rec EXCEPT !.reflection_history = Append(@, feedback),
                !.reflection_iterations = @ + 1]

\* ------------------------------------------------------------ evaluation
\* Overall scores a judgement of a non-empty option list may carry.
JudgeScores == {60, 70, 85}

\* What the quality judgement of a non-empty option list may produce: a
\* score with its directives, or an exception raised inside evaluate.
Judgements ==
    { [kind |-> "raises", overall |-> 0] } \cup
    { [kind |-> "score", overall |-> x] : x \in JudgeScores }

\* RecommendationEvaluator.evaluate: an empty option list scores zero with
\* one directive before anything else is looked at; otherwise the
\* judgement decides.
evaluate(rec, j) ==
    IF rec.options = <<>>
    THEN [fault |-> FALSE, scores |-> ZeroScore,
          improvement_suggestions |-> <<"no matching options">>]
    ELSE IF j.kind = "raises"
    THEN [fault |-> TRUE, scores |-> ZeroScore,
          improvement_suggestions |-> <<>>]
    ELSE [fault |-> FALSE,
          scores |-> RecommendationScore(j.overall, j.overall, j.overall, j.overall),
          improvement_suggestions |-> <<"raise overall quality">>]

\* ------------------------------------------------------------ reflection
\* A parsed adjustment dict: its items in order, each a dotted path split
\* at the dots and the value to assign.  A JSON value is held with its
\* type: a number, a string, or a list (null is the list None).
Number(n) == [type |-> "number", number |-> n, string |-> "", list |-> <<>>]
String(str) == [type |-> "string", number |-> 0, string |-> str, list |-> <<>>]
List(l) == [type |-> "list", number |-> 0, string |-> "", list |-> l]

\* The Python object a JSON value parses to.
PyValue(v) ==
    CASE v.type = "number" -> v.number
      [] v.type = "string" -> v.string
      [] OTHER             -> v.list

Dict(items) == [is_dict |-> TRUE, items |-> items]
EmptyDict == Dict(<<>>)
\* Parsable JSON that is not an object (a list, a number).
NotADict == [is_dict |-> FALSE, items |-> <<>>]

\* What the LLM may answer to the reflect prompt.
ReflectResponses ==
    << [kind |-> "raises"], [kind |-> "not_json"],
      [kind |-> "json", value |-> NotADict],
      [kind |-> "json", value |-> EmptyDict],
      [kind |-> "json", value |->
          Dict(<< [path |-> <<"budget", "max_price">>, value |-> Number(800)],
                  [path |-> <<"priorities">>, value |-> List(<<"time", "comfort">>)] >>)],
      [kind |-> "json", value |->
          Dict(<< [path |-> <<"preferred_transport_types">>, value |-> List(<<>>)] >>)],
      [kind |-> "json", value |->
          Dict(<< [path |-> <<"preferred_transport_types">>, value |-> List(None)] >>)],
      [kind |-> "json", value |->
          Dict(<< [path |-> <<"nosuch", "departure_city">>, value |-> String("Guangzhou")],
                  [path |-> <<"priorities">>, value |-> List(<<>>)] >>)],
      [kind |-> "json", value |->
          Dict(<< [path |-> <<"copy">>, value |-> Number(1)] >>)] >>

\* What kind of answer the reflect prompt got: the call raised, the text
\* did not parse, it parsed to something that is not an object, or it
\* parsed to an object.
ReflectKind(r) ==
    IF r.kind # "json" THEN r.kind
    ELSE IF r.value.is_dict THEN "dict" ELSE "not_a_dict"

\* LLMClient.reflect_and_adjust: the parsed JSON, or {} when the call
\* raises or the answer does not parse.
reflect_and_adjust(r) ==
    IF r.kind = "json" THEN r.value ELSE EmptyDict

\* Attributes every pydantic model has besides its fields; setattr on one
\* of them raises ValueError.
ModelMethods == {"copy", "dict", "json"}

\* hasattr(target, part) for a model object.
HasAttr(target, part) == part \in (DOMAIN target) \cup ModelMethods

\* The inner loop of apply_improvements over parts[:-1]: the fields
\* actually descended into, stopping at the first missing one.
RECURSIVE Descend(_, _)
Descend(target, parts) ==
    IF parts = <<>> THEN <<>>
    ELSE IF Head(parts) \in DOMAIN target
         THEN <<Head(parts)>> \o Descend(target[Head(parts)], Tail(parts))
         ELSE <<>>

RECURSIVE GetAt(_, _)
GetAt(obj, fields) ==
    IF fields = <<>> THEN obj ELSE GetAt(obj[Head(fields)], Tail(fields))

RECURSIVE SetAt(_, _, _, _)
SetAt(obj, fields, last, value) ==
    IF fields = <<>> THEN [obj EXCEPT ![last] = value]
    ELSE [obj EXCEPT ![Head(fields)] = SetAt(@, Tail(fields), last, value)]

\* One iteration of the loop over adjusted_params.items().
ApplyItem(needs, item) ==
    LET parts     == item.path
        reached   == Descend(needs, SubSeq(parts, 1, Len(parts) - 1))
        target    == GetAt(needs, reached)
        last_part == parts[Len(parts)]
    IN  IF ~HasAttr(target, last_part) THEN [fault |-> FALSE, needs |-> needs]
        ELSE IF last_part \in ModelMethods THEN [fault |-> TRUE, needs |-> needs]
        ELSE [fault |-> FALSE, needs |-> SetAt(needs, reached, last_part,
                                           PyValue(item.value))]

RECURSIVE ApplyItems(_, _)
ApplyItems(needs, items) ==
    IF items = <<>> THEN [fault |-> FALSE, needs |-> needs]
    ELSE LET r == ApplyItem(needs, Head(items))
         IN  IF r.fault THEN r ELSE ApplyItems(r.needs, Tail(items))

\* ReflectionEngine.apply_improvements: the adjusted deep copy of the
\* needs, or a fault (`.items()` on a non-dict, setattr on a method).
apply_improvements(needs, adjusted_params) ==
    IF ~adjusted_params.is_dict THEN [fault |-> TRUE, needs |-> needs]
    ELSE ApplyItems(needs, adjusted_params.items)

\* ReflectionEngine.create_reflection_feedback.
create_reflection_feedback(iter, scores, suggestions, adjusted_params) ==
    [iteration |-> iter,
     strengths |-> IF scores.needs_match_score >= 85 THEN 1 ELSE 0,
     improvement_suggestions |-> suggestions,
     adjusted_parameters |-> adjusted_params]

\* ------------------------------------------------- RecommendationScore
\* RecommendationScore(**kwargs): kwargs.given names the keyword arguments
\* passed.  Scores are whole numbers; the overall score is kept in tenths,
\* the precision of round(total_score, 1).

ScoreFields ==
    {"needs_match_score", "completeness_score", "practicality_score",
     "overall_score"}

\* Keyword arguments for the three dimension scores and, if given, overall.
ScoreKwargs(nm, co, pr, given_overall, ov) ==
    [given |-> IF given_overall THEN ScoreFields
                                ELSE ScoreFields \ {"overall_score"},
     needs_match_score  |-> nm,
     completeness_score |-> co,
     practicality_score |-> pr,
     overall_score      |-> ov]

\* A field declared `float = Field(ge=0, le=100)` has no default: pydantic
\* requires it, and does not run the field's validator when it is missing.
FieldRequired(field) == field \in ScoreFields

\* The validator of overall_score, result in tenths: a non-zero value is
\* returned, 0 is replaced by round(0.5*nm + 0.3*co + 0.2*pr, 1).
calculate_overall_score(v, values) ==
    IF v # 0 THEN 10 * v
    ELSE 5 * values.needs_match_score + 3 * values.completeness_score
         + 2 * values.practicality_score

\* Model construction: ValidationError (fault) for a missing required
\* field or a value outside ge=0, le=100; otherwise the validated object.
RecommendationScore_init(kwargs) ==
    LET missing == {f \in ScoreFields \ kwargs.given : FieldRequired(f)}
        passed  == {f \in ScoreFields : f \in kwargs.given}
        v       == IF "overall_score" \in kwargs.given
                   THEN kwargs.overall_score ELSE 0
        bad     == {f \in passed : kwargs[f] < 0 \/ kwargs[f] > 100}
        none    == [needs_match_score |-> 0, completeness_score |-> 0,
                    practicality_score |-> 0, overall_score |-> 0]
    IN  IF missing # {} \/ bad # {}
        THEN [fault |-> TRUE, value |-> none]
        ELSE [fault |-> FALSE,
              value |-> [needs_match_score  |-> kwargs.needs_match_score,
                         completeness_score |-> kwargs.completeness_score,
                         practicality_score |-> kwargs.practicality_score,
                         overall_score      |->
                             calculate_overall_score(v, kwargs)]]

\* Dimension scores and overall values passed to the constructor.
DimensionScores == {0, 70, 75, 80, 100}
OverallScores == {0, 60, 100}

\* ------------------------------------------------------------- ranking
\* DataProcessor.rank_tickets.  Scores are the integers the code computes
\* on the pools below, whose values make every quotient exact; an unset
\* (None) bound is 0, which the code's truth tests (`if x:`) treat alike.

\* Longest candidate list drawn from the pool.
MaxTickets == 3

\* Most calls of rank_tickets made one after the other.
MaxCalls == 3

Max(a, b) == IF a > b THEN a ELSE b

\* A train ticket of the budget scenario: only price and seats vary.
TrainTicket(price, seats) ==
    [transport_type   |-> "train",
     seat_class       |-> "second_class",
     price            |-> price,
     departure_time   |-> 9,
     duration_minutes |-> 240,
     available_seats  |-> seats,
     transfer_info    |-> <<>>]

\* max_price = 1000 against prices [600,900,1200,1500,800] with seats
\* [10,0,5,20,3].
ScenarioTickets ==
    << TrainTicket(600, 10), TrainTicket(900, 0), TrainTicket(1200, 5),
       TrainTicket(1500, 20), TrainTicket(800, 3) >>

\* Candidate tickets: the scenario's trains and a late, long, cheap flight.
TicketPool ==
    { ScenarioTickets[i] : i \in DOMAIN ScenarioTickets } \cup
    { [transport_type   |-> "flight",
       seat_class       |-> "economy",
       price            |-> 100,
       departure_time   |-> 14,
       duration_minutes |-> 300,
       available_seats  |-> 1,
       transfer_info    |-> <<>>] }

\* The fields of UserNeeds that rank_tickets reads.
RankNeeds(types, classes, min_price, max_price, start_time, end_time, max_dur) ==
    [preferred_transport_types |-> types,
     preferred_seat_classes    |-> classes,
     budget                    |-> [min_price |-> min_price,
                                    max_price |-> max_price],
     departure_time_range      |-> [start_time |-> start_time,
                                    end_time   |-> end_time],
     max_duration_minutes      |-> max_dur]

\* Needs: the scenario's; a flight traveller with a price floor, a window
\* and a duration limit; a negative max_price; no preference beyond the
\* mode; a floor above the ceiling; a negative min_price.
RankNeedsPool ==
    << RankNeeds({"train"}, {}, 0, 1000, 0, 0, 0),
       RankNeeds({"flight"}, {"economy"}, 200, 0, 10, 12, 180),
       RankNeeds({"train"}, {}, 0, -100, 0, 0, 0),
       RankNeeds({"flight", "train"}, {}, 0, 0, 0, 0, 0),
       RankNeeds({"train"}, {"first_class"}, 1000, 500, 0, 0, 0),
       RankNeeds({"train"}, {}, -100, 0, 0, 0, 0) >>

\* 1. transport_type_score
transport_type_score(ticket, needs) ==
    IF ticket.transport_type \in needs.preferred_transport_types
    THEN 100 ELSE 50

\* 2. seat_class_score
seat_class_score(ticket, needs) ==
    IF needs.preferred_seat_classes # {}
    THEN IF ticket.seat_class \in needs.preferred_seat_classes
         THEN 100 ELSE 60
    ELSE 100

\* `if budget.max_price: if price > max_price:` of the price factor.
over_max_score(price, max_price) ==
    Max(0, 100 - ((price - max_price) * 100) \div max_price)

\* `if budget.min_price: if price < min_price:` of the price factor.
under_min_score(price, min_price) ==
    Max(0, 100 - ((min_price - price) * 50) \div min_price)

\* 3. price_score: the min_price test runs second and overwrites.
price_score(ticket, needs) ==
    LET b  == needs.budget
        s1 == IF b.max_price # 0 /\ ticket.price > b.max_price
              THEN over_max_score(ticket.price, b.max_price) ELSE 100
    IN  IF b.min_price # 0 /\ ticket.price < b.min_price
        THEN under_min_score(ticket.price, b.min_price) ELSE s1

\* 4. time_score: 5 points per hour outside the window.
time_score(ticket, needs) ==
    LET w == needs.departure_time_range
    IN  IF w.start_time # 0 /\ w.end_time # 0
        THEN IF ticket.departure_time < w.start_time
             THEN Max(0, 100 - (w.start_time - ticket.departure_time) * 5)
             ELSE IF ticket.departure_time > w.end_time
             THEN Max(0, 100 - (ticket.departure_time - w.end_time) * 5)
             ELSE 100
        ELSE 100

\* 5. duration_score: 10 points per hour over the limit.
duration_score(ticket, needs) ==
    IF needs.max_duration_minutes # 0
       /\ ticket.duration_minutes > needs.max_duration_minutes
    THEN Max(0, 100 - ((ticket.duration_minutes
                          - needs.max_duration_minutes) * 10) \div 60)
    ELSE 100

\* 6. availability_score
availability_score(ticket) ==
    IF ticket.available_seats > 0
    THEN Min(100, ticket.available_seats * 10) ELSE 0

\* The reasons list of one ticket: factor name -> score.
reasons(ticket, needs) ==
    [transport_type |-> transport_type_score(ticket, needs),
     seat_class     |-> seat_class_score(ticket, needs),
     price          |-> price_score(ticket, needs),
     departure_time |-> time_score(ticket, needs),
     duration       |-> duration_score(ticket, needs),
     availability   |-> availability_score(ticket)]

Factors ==
    {"transport_type", "seat_class", "price", "departure_time", "duration",
     "availability"}

\* total_score in hundredths: the weights 0.15, 0.1, 0.2, 0.25, 0.15, 0.15
\* times 100.
total_score(rs) ==
    15 * rs.transport_type + 10 * rs.seat_class + 20 * rs.price
    + 25 * rs.departure_time + 15 * rs.duration + 15 * rs.availability

\* One element of scored_tickets; idx is the ticket's place in the input.
scored_ticket(idx, ticket, needs) ==
    [idx     |-> idx,
     ticket  |-> ticket,
     total   |-> total_score(reasons(ticket, needs)),
     reasons |-> reasons(ticket, needs)]

\* Variant of the sort that is not stable: equal keys go in front.
sort_position_unstable(sorted, e) ==
    Cardinality({i \in DOMAIN sorted : sorted[i].total > e.total})

\* Where list.sort(key=total, reverse=True) puts e among the elements
\* before it: behind every element of greater or equal total.
sort_position(sorted, e) ==
    Cardinality({i \in DOMAIN sorted : sorted[i].total >= e.total})

\* Variant: the sort is applied to the argument list itself.
argument_after_sort_InPlace(arg, sorted) ==
    [i \in DOMAIN sorted |-> sorted[i].ticket]

\* The tickets argument after the call: the sort works on the local list
\* scored_tickets, the argument is only iterated.
argument_after_sort(arg, sorted) == arg

RECURSIVE sort_reverse(_)
\* scored_tickets.sort(key=lambda x: x[1], reverse=True)
sort_reverse(s) ==
    IF s = <<>> THEN <<>>
    ELSE LET front == sort_reverse(SubSeq(s, 1, Len(s) - 1))
             e     == s[Len(s)]
             p     == sort_position(front, e)
         IN  SubSeq(front, 1, p) \o <<e>> \o SubSeq(front, p + 1, Len(front))

\* DataProcessor.rank_tickets as a whole: every ticket scored in input
\* order, then the sort.
rank_tickets(ticket_list, needs) ==
    sort_reverse([i \in DOMAIN ticket_list |->
                     scored_ticket(i, ticket_list[i], needs)])

\* ------------------------------------------- the options of a Recommendation
\* ReflectionEngine.generate_recommendations, lines 114-139.  Option
\* scores are rank totals, in hundredths.

\* Most assignments to a built Recommendation followed in one run.
MaxUpdates == 2

\* Variant: every ranked ticket becomes an option.
top_ranked_All(ranked) == ranked

\* ranked_tickets[:10]
top_ranked(ranked) == SubSeq(ranked, 1, Min(MaxOptions, Len(ranked)))

\* RecommendationOption(ticket=ticket, score=score, rank=idx + 1, ...)
RecommendationOption(ticket, score, rank) ==
    [ticket |-> ticket, score |-> score, rank |-> rank]

\* score: float = Field(ge=0, le=100)
ScoreRejected(score) == score < 0 \/ score > 100 * 100

\* The loop over enumerate(ranked_tickets[:10]): the options in order,
\* or a ValidationError (fault) for a score outside [0,100].
build_options(ranked) ==
    LET top == top_ranked(ranked)
    IN  [fault   |-> \E i \in DOMAIN top : ScoreRejected(top[i].total),
         options |-> [i \in DOMAIN top |->
                        RecommendationOption(top[i].ticket, top[i].total, i)]]

\* Candidate lists of ten and more tickets, all of different price.
LongList(n) == [i \in 1..n |-> TrainTicket(500 + 100 * i, (7 * i) % 12)]

LongLists == { LongList(n) : n \in {10, 11, 12} }

\* ------------------------------------------------------ the evaluator
\* RecommendationEvaluator and the judge calls of LLMClient.

\* Longest option list built from the pool of bookable tickets.
MaxEvalOptions == 2

\* A ticket leaving at another hour, and a flight.
DepartingAt(ticket, hour) == [ticket EXCEPT !.departure_time = hour]

FlightTicket(price, hour) ==
    [TrainTicket(price, 1) EXCEPT !.transport_type = "flight",
                                  !.seat_class = "economy",
                                  !.departure_time = hour]

\* Lists of three, four and five bookable options leaving at three
\* different hours, with one and with two transport modes, a price range
\* within and beyond half the average price.
ThreeTrains ==
    << DepartingAt(TrainTicket(600, 10), 8),
       DepartingAt(TrainTicket(700, 5), 12),
       DepartingAt(TrainTicket(800, 3), 16) >>

CompletenessLists ==
    { ThreeTrains,
      ThreeTrains \o << FlightTicket(1500, 16) >>,
      ThreeTrains \o << FlightTicket(700, 12), FlightTicket(800, 8) >> }

\* Option lists under evaluation (the tickets of recommendation.options):
\* lists of bookable tickets, the scenario's five trains (one sold out), a
\* half sold out pair and a sold out pair.  On these the share of
\* bookable options times 10 is a whole number.
EvalOptionLists ==
    UNION { [1..n -> {t \in TicketPool : t.available_seats > 0}] :
              n \in 0..MaxEvalOptions }
    \cup { ScenarioTickets,
           <<TrainTicket(900, 0), TrainTicket(800, 3)>>,
           <<TrainTicket(900, 0), TrainTicket(900, 0)>> }
    \cup CompletenessLists

\* if not recommendation.options
HasNoOptions_Never(options) == FALSE

\* if not recommendation.options
HasNoOptions(options) == options = <<>>

\* The single directive returned for an empty option list.
NoOptionsDirective == <<"no matching options found">>

\* The judge's answer to one evaluation prompt: a bare number, text with a
\* number in it, text without one, or the call raising.
JudgeResponses ==
    << [kind |-> "number", value |-> 90],
       [kind |-> "number", value |-> 150],
       [kind |-> "text", value |-> 60],
       [kind |-> "unparsable", value |-> 0],
       [kind |-> "raises", value |-> 0] >>

\* LLMClient._extract_score: the number clamped to [0,100], else the first
\* number found in the text, else 70.
extract_score(r) ==
    IF r.kind \in {"number", "text"} THEN Max(0, Min(100, r.value)) ELSE 70

\* LLMClient.evaluate_needs_match / _completeness / _practicality: the
\* extracted score, or 70 when the call raises.
llm_evaluate(r) == IF r.kind = "raises" THEN 70 ELSE extract_score(r)

Clamp(score) == Max(0, Min(100, score))

\* TicketData.is_direct
is_direct(ticket) == ticket.transfer_info = <<>>

\* RecommendationEvaluator._evaluate_needs_match, rule path.
local_needs_match(options, needs) ==
    LET top   == 1..Min(3, Len(options))
        s0    == 80
        s1    == s0 + (IF \E i \in top : options[i].transport_type
                                \in needs.preferred_transport_types
                      THEN 5 ELSE -10)
        s2    == IF needs.preferred_seat_classes # {}
                 THEN s1 + (IF \E i \in top : options[i].seat_class
                                  \in needs.preferred_seat_classes
                            THEN 5 ELSE -5)
                 ELSE s1
        s3    == IF needs.budget.max_price # 0
                 THEN s2 + (IF \A i \in top :
                                  options[i].price <= needs.budget.max_price
                            THEN 10 ELSE -15)
                 ELSE s2
        w     == needs.departure_time_range
        s4    == IF w.start_time # 0 /\ w.end_time # 0
                 THEN s3 + (IF \E i \in top :
                                  /\ w.start_time <= options[i].departure_time
                                  /\ options[i].departure_time <= w.end_time
                            THEN 10 ELSE -15)
                 ELSE s3
    IN  Clamp(s4)

RECURSIVE SumPrices(_)
SumPrices(options) ==
    IF options = <<>> THEN 0
    ELSE Head(options).price + SumPrices(Tail(options))

\* RecommendationEvaluator._evaluate_completeness, rule path.
local_completeness_ZeroRangeCounts(options, needs) ==
    LET n      == Len(options)
        prices == {options[i].price : i \in 1..n}
        hi     == CHOOSE x \in prices : \A y \in prices : y <= x
        lo     == CHOOSE x \in prices : \A y \in prices : x <= y
        s1     == 75 + (IF n >= 5 THEN 10 ELSE IF n >= 3 THEN 5
                        ELSE IF n = 1 THEN -10 ELSE 0)
        s2     == s1 + Min(10, 5 * Cardinality(
                           {options[i].transport_type : i \in 1..n}))
        s3     == IF n > 1 /\ 2 * n * (hi - lo) <= SumPrices(options)
                  THEN s2 + 5 ELSE s2
        s4     == IF Cardinality({options[i].departure_time : i \in 1..n}) >= 3
                  THEN s3 + 5 ELSE s3
    IN  IF n = 0 THEN 0 ELSE Clamp(s4)

\* RecommendationEvaluator._evaluate_completeness, rule path.
local_completeness(options, needs) ==
    LET n      == Len(options)
        prices == {options[i].price : i \in 1..n}
        hi     == CHOOSE x \in prices : \A y \in prices : y <= x
        lo     == CHOOSE x \in prices : \A y \in prices : x <= y
        s1     == 75 + (IF n >= 5 THEN 10 ELSE IF n >= 3 THEN 5
                        ELSE IF n = 1 THEN -10 ELSE 0)
        s2     == s1 + Min(10, 5 * Cardinality(
                           {options[i].transport_type : i \in 1..n}))
        \* price_range > 0 and price_range <= avg_price * 0.5
        s3     == IF n > 1 /\ hi - lo > 0
                     /\ 2 * n * (hi - lo) <= SumPrices(options)
                  THEN s2 + 5 ELSE s2
        s4     == IF Cardinality({options[i].departure_time : i \in 1..n}) >= 3
                  THEN s3 + 5 ELSE s3
    IN  IF n = 0 THEN 0 ELSE Clamp(s4)

\* The duration test of _evaluate_practicality for one option.
reasonable_duration(ticket, needs) ==
    IF needs.max_duration_minutes # 0
    THEN ticket.duration_minutes <= needs.max_duration_minutes
    ELSE \/ ticket.transport_type = "flight" /\ ticket.duration_minutes <= 240
         \/ ticket.transport_type = "train" /\ ticket.duration_minutes <= 480

\* RecommendationEvaluator._evaluate_practicality, rule path.
local_practicality(options, needs) ==
    LET n         == Len(options)
        available == Cardinality({i \in 1..n : options[i].available_seats > 0})
        direct    == Cardinality({i \in 1..n : is_direct(options[i])})
        ok        == Cardinality({i \in 1..n :
                                    reasonable_duration(options[i], needs)})
        s1        == IF available = 0 THEN 70 - 50
                     ELSE 70 + (available * 10) \div n
        s2        == IF direct > 0 THEN s1 + 10 ELSE s1
        s3        == IF ok > 0 THEN s2 + Min(15, ok * 5) ELSE s2
    IN  Clamp(s3)

\* ------------------------------------------------ improvement suggestions
\* RecommendationEvaluator._generate_improvement_suggestions and
\* LLMClient.generate_improvement_suggestions.  A scores object holds
\* overall_score in tenths, as RecommendationScore_init returns it.

\* Needs with the departure window's preferred_time ("None" when unset).
WithPreferredTime(needs, preferred_time) ==
    [preferred_transport_types |-> needs.preferred_transport_types,
     preferred_seat_classes    |-> needs.preferred_seat_classes,
     budget                    |-> needs.budget,
     departure_time_range      |->
         [start_time     |-> needs.departure_time_range.start_time,
          end_time       |-> needs.departure_time_range.end_time,
          preferred_time |-> preferred_time],
     max_duration_minutes      |-> needs.max_duration_minutes]

SuggestNeedsPool ==
    { WithPreferredTime(RankNeedsPool[k], pt) :
        k \in {1, 4}, pt \in {"None", "morning"} }

\* if scores.completeness_score < 70
CompletenessIsLow_Below80(scores) == scores.completeness_score < 80

\* if scores.completeness_score < 70
CompletenessIsLow(scores) == scores.completeness_score < 70

\* The rule path of _generate_improvement_suggestions: the directives in
\* the order they are appended, and the default when none was.
local_suggestions(options, needs, scores) ==
    LET n         == Len(options)
        over      == {i \in 1..n : options[i].price > needs.budget.max_price}
        modes     == {options[i].transport_type : i \in 1..n}
        available == {i \in 1..n : options[i].available_seats > 0}
        direct    == {i \in 1..n : is_direct(options[i])}
        a1 == IF scores.needs_match_score < 60
              THEN <<"focus on core needs">> ELSE <<>>
        a2 == IF /\ scores.needs_match_score < 80
                 /\ needs.budget.max_price # 0
                 /\ over # {}
              THEN <<"more options within budget">> ELSE <<>>
        a3 == IF /\ scores.needs_match_score < 80
                 /\ needs.departure_time_range.preferred_time # "None"
              THEN <<"match the preferred time">> ELSE <<>>
        b1 == IF CompletenessIsLow(scores) /\ n < 3
              THEN <<"at least 3 different options">> ELSE <<>>
        b2 == IF /\ CompletenessIsLow(scores)
                 /\ Cardinality(modes)
                      < Cardinality(needs.preferred_transport_types)
              THEN <<"cover all preferred modes">> ELSE <<>>
        c1 == IF scores.practicality_score < 80
                 /\ 2 * Cardinality(available) < n
              THEN <<"more bookable options">> ELSE <<>>
        c2 == IF scores.practicality_score < 80 /\ direct = {} /\ n > 0
              THEN <<"some direct options">> ELSE <<>>
        d1 == IF /\ scores.needs_match_score >= 80
                 /\ scores.completeness_score >= 80
                 /\ scores.practicality_score >= 80
                 /\ scores.overall_score < 900
              THEN <<"add distinctive features">> ELSE <<>>
        suggestions == a1 \o a2 \o a3 \o b1 \o b2 \o c1 \o c2 \o d1
    IN  IF suggestions # <<>> THEN suggestions
        ELSE IF scores.overall_score >= 900
        THEN <<"add personal details">>
        ELSE <<"raise overall quality">>

\* The directives about the variety of the options.
DiversityDirectives ==
    {"at least 3 different options", "cover all preferred modes"}

\* One line of the judge's answer: its list marker ("number" for `1.`,
\* "dash" for `-`, "none"), the text after the marker, whether the line
\* starts with the heading word and whether it holds a colon.
Line(marker, body, heading, colon) ==
    [marker |-> marker, body |-> body, heading |-> heading, colon |-> colon]

Bodies(lines) == [i \in DOMAIN lines |-> lines[i].body]

FirstFive(seq) == SubSeq(seq, 1, Min(5, Len(seq)))

\* LLMClient._extract_suggestions on a text whose list items take one
\* line each: the numbered items, else the dashed items, else the first
\* five lines that neither start with the heading word nor hold a colon;
\* at most five of them.
extract_suggestions(text) ==
    LET Numbered(l) == l.marker = "number" /\ l.body # ""
        Dashed(l)   == l.marker = "dash" /\ l.body # ""
        Plain(l)    == l.body # "" /\ ~l.heading /\ ~l.colon
        numbered    == Bodies(SelectSeq(text, Numbered))
        dashed      == Bodies(SelectSeq(text, Dashed))
        plain       == FirstFive(Bodies(SelectSeq(text, Plain)))
    IN  FirstFive(IF numbered # <<>> THEN numbered
                  ELSE IF dashed # <<>> THEN dashed
                  ELSE plain)

\* What the suggestion prompt may come back with: the call raising, a
\* numbered list of three and of six items, a dashed list, plain lines
\* under a heading, lines of the form `topic: advice`, an empty text.
SuggestionResponses ==
    << [kind |-> "raises", text |-> <<>>],
       [kind |-> "text",
        text |-> << Line("number", "a", FALSE, FALSE),
                    Line("number", "b", FALSE, FALSE),
                    Line("number", "c", FALSE, FALSE) >>],
       [kind |-> "text",
        text |-> << Line("number", "a", FALSE, FALSE),
                    Line("number", "b", FALSE, FALSE),
                    Line("number", "c", FALSE, FALSE),
                    Line("number", "d", FALSE, FALSE),
                    Line("number", "e", FALSE, FALSE),
                    Line("number", "f", FALSE, FALSE) >>],
       [kind |-> "text",
        text |-> << Line("dash", "a", FALSE, FALSE),
                    Line("dash", "b", FALSE, FALSE) >>],
       [kind |-> "text",
        text |-> << Line("none", "suggestions:", TRUE, TRUE),
                    Line("none", "a", FALSE, FALSE),
                    Line("none", "b", FALSE, FALSE) >>],
       [kind |-> "text",
        text |-> << Line("none", "price: lower it", FALSE, TRUE),
                    Line("none", "time: match it", FALSE, TRUE) >>],
       [kind |-> "text", text |-> <<>>] >>

\* LLMClient.generate_improvement_suggestions: the extracted list, or
\* three stock suggestions when the call raises.
generate_improvement_suggestions(r) ==
    IF r.kind = "raises"
    THEN <<"raise overall quality", "match core needs better",
           "add variety">>
    ELSE extract_suggestions(r.text)

\* ------------------------------------------- UserNeeds objects by reference
\* apply_improvements on objects: a heap is a sequence of objects, an
\* address an index into it.  A UserNeeds object holds the addresses of
\* its BudgetRange and TimeRange objects.

\* Most calls of apply_improvements in one run.
MaxApplies == 3

NestedFields == {"budget", "departure_time_range"}

\* A UserNeeds value put on the heap as three objects; its address is
\* Len(heap) + 1.
alloc_needs(heap, needs) ==
    heap \o << [needs EXCEPT !.budget = Len(heap) + 2,
                             !.departure_time_range = Len(heap) + 3],
               needs.budget,
               needs.departure_time_range >>

\* The UserNeeds value read through the object at addr.
deep_value(heap, addr) ==
    [f \in DOMAIN heap[addr] |->
        IF f \in NestedFields THEN heap[heap[addr][f]] ELSE heap[addr][f]]

\* Variant: copy() without deep=True shares the nested objects.
CopyIsDeep_Shallow == FALSE

\* user_needs.copy(deep=True)
CopyIsDeep == TRUE

\* adjusted_needs = user_needs.copy(deep=True): the heap with the copy
\* at address Len(heap) + 1.
model_copy(heap, addr) ==
    IF CopyIsDeep THEN alloc_needs(heap, deep_value(heap, addr))
    ELSE Append(heap, heap[addr])

\* One iteration of the loop over adjusted_params.items(), on the object
\* copy: setattr on the object the walk over parts[:-1] ends at.
HeapApplyItem(heap, copy, item) ==
    LET parts     == item.path
        reached   == Descend(deep_value(heap, copy),
                             SubSeq(parts, 1, Len(parts) - 1))
        target    == IF reached = <<>> THEN copy ELSE heap[copy][reached[1]]
        last_part == parts[Len(parts)]
    IN  IF ~HasAttr(heap[target], last_part)
        THEN [fault |-> FALSE, heap |-> heap]
        ELSE IF last_part \in ModelMethods
        THEN [fault |-> TRUE, heap |-> heap]
        ELSE [fault |-> FALSE,
              heap  |-> [heap EXCEPT ![target][last_part] =
                                       PyValue(item.value)]]

RECURSIVE HeapApplyItems(_, _, _)
HeapApplyItems(heap, copy, items) ==
    IF items = <<>> THEN [fault |-> FALSE, heap |-> heap]
    ELSE LET r == HeapApplyItem(heap, copy, Head(items))
         IN  IF r.fault THEN r ELSE HeapApplyItems(r.heap, copy, Tail(items))

\* ReflectionEngine.apply_improvements on the object at addr: the heap
\* afterwards, the address of the returned copy, and whether it raised.
heap_apply_improvements(heap, addr, adjusted_params) ==
    LET copied == model_copy(heap, addr)
        copy   == Len(heap) + 1
        r      == IF ~adjusted_params.is_dict
                  THEN [fault |-> TRUE, heap |-> copied]
                  ELSE HeapApplyItems(copied, copy, adjusted_params.items)
    IN  [fault |-> r.fault, heap |-> r.heap, needs |-> copy]

\* =================================================== ReflectionEngine.recommend
VARIABLES
    pc,                      \* the step recommend is about to run
    max_iterations,          \* self.max_iterations
    user_needs,              \* local user_needs
    current_needs,           \* local current_needs
    candidate_tickets,       \* local candidate_tickets (how many)
    recommendation,          \* local recommendation
    iteration,               \* loop variable of `for iteration in range(...)`
    scores,                  \* local scores
    improvement_suggestions, \* local improvement_suggestions
    adjusted_params,         \* local adjusted_params
    next_id,                 \* the next uuid4
    returned,                \* the value recommend returned
    exit,                    \* how recommend left: normal / empty / except / raised
    evaluated,               \* history: the evaluations made, in order
    sourcings,               \* history: the candidate counts sourced, in order
    reflect_calls,           \* history: number of Reflect calls
    rebuilds,                \* history: number of rebuilds after an adjustment
    responses                \* history: kind of the last LLM answer per prompt

\* The state of one run of recommend.
ctrl_vars == <<pc, max_iterations, user_needs, current_needs, candidate_tickets,
               recommendation, iteration, scores, improvement_suggestions,
               adjusted_params, next_id, returned, exit, evaluated, sourcings,
               reflect_calls, rebuilds, responses>>

\* The state of one call of DataProcessor.rank_tickets.
VARIABLES
    rank_pc,          \* "idle", "score", "done"
    tickets,          \* the tickets argument
    rank_needs,       \* the user_needs argument
    scored_tickets,   \* the local list, sorted in place at the end
    rank_log          \* the calls returned so far: arguments and result

rank_vars == <<rank_pc, tickets, rank_needs, scored_tickets, rank_log>>

\* No call of rank_tickets is under way.
RankIdle ==
    /\ rank_pc = "idle"
    /\ tickets = <<>>
    /\ rank_needs = RankNeedsPool[1]
    /\ scored_tickets = <<>>
    /\ rank_log = <<>>

\* The state of one call of RecommendationEvaluator.evaluate.
VARIABLES
    eval_pc,          \* "idle", "start", "needs_match", "completeness",
                      \* "practicality", "construct", "done"
    eval_llm,         \* self.llm_client is set
    eval_options,     \* the tickets of recommendation.options
    eval_needs,       \* the user_needs argument
    eval_dims,        \* the three local score variables
    eval_result,      \* what evaluate returned, or that it raised
    eval_trace        \* the judge answers and rule evaluations so far

eval_vars == <<eval_pc, eval_llm, eval_options, eval_needs, eval_dims,
               eval_result, eval_trace>>

NoDims ==
    [needs_match_score |-> 0, completeness_score |-> 0,
     practicality_score |-> 0]

NoResult ==
    [fault |-> FALSE, scores |-> ZeroScore, improvement_suggestions |-> <<>>]

\* No call of evaluate is under way.
EvalIdle ==
    /\ eval_pc = "idle"
    /\ eval_llm = FALSE
    /\ eval_options = <<>>
    /\ eval_needs = RankNeedsPool[1]
    /\ eval_dims = NoDims
    /\ eval_result = NoResult
    /\ eval_trace = <<>>

\* The state of one construction of a RecommendationScore.
VARIABLES
    score_pc,         \* "idle", "new", "done"
    score_kwargs,     \* the keyword arguments
    score_result      \* the object built, or that construction raised

score_vars == <<score_pc, score_kwargs, score_result>>

\* No RecommendationScore is being built.
ScoreIdle ==
    /\ score_pc = "idle"
    /\ score_kwargs = ScoreKwargs(0, 0, 0, TRUE, 0)
    /\ score_result = RecommendationScore_init(ScoreKwargs(0, 0, 0, TRUE, 0))

\* The UserNeeds objects of one run, by reference.
VARIABLES
    heap_pc,          \* "idle", "run", "failed"
    heap,             \* the objects
    needs_chain,      \* addresses: the extracted needs, then each
                      \* iteration's adjusted needs
    snapshots,        \* the value of each of them when it was made
    applied_params    \* the adjusted_params of each call

heap_vars == <<heap_pc, heap, needs_chain, snapshots, applied_params>>

\* No needs objects exist.
HeapIdle ==
    /\ heap_pc = "idle"
    /\ heap = <<>>
    /\ needs_chain = <<>>
    /\ snapshots = <<>>
    /\ applied_params = <<>>

\* One call of the suggestion step of evaluate (lines 53-65).
VARIABLES
    sug_pc,       \* "idle", "score", "suggest", "done"
    sug_llm,      \* whether an LLM client is set
    sug_options,  \* recommendation.options
    sug_needs,    \* user_needs
    sug_scores,   \* scores
    sug_result    \* the list returned

sug_vars == <<sug_pc, sug_llm, sug_options, sug_needs, sug_scores,
              sug_result>>

\* No suggestion step is under way.
SugIdle ==
    /\ sug_pc = "idle"
    /\ sug_llm = FALSE
    /\ sug_options = <<>>
    /\ sug_needs = None
    /\ sug_scores = ZeroScore
    /\ sug_result = <<>>

\* One Recommendation from its construction on.
VARIABLES
    build_pc,       \* "idle", "build", "built", "raised"
    build_tickets,  \* tickets
    build_needs,    \* user_needs
    build_rec,      \* recommendation
    build_updates   \* assignments to the Recommendation since it was built

build_vars == <<build_pc, build_tickets, build_needs, build_rec,
                build_updates>>

\* No Recommendation is being built.
BuildIdle ==
    /\ build_pc = "idle"
    /\ build_tickets = <<>>
    /\ build_needs = None
    /\ build_rec = NoRecommendation
    /\ build_updates = 0

\* Two requests served by one engine.
VARIABLES
    frames,  \* request -> the local variables of its call of recommend
    shared,  \* what the two calls have in common: the engine's fields, the
             \* list objects, the uuid source, recommendation_cache
    alone    \* request -> frame and shared state of the same call, given
             \* the same answers, with no other request in the process

pair_vars == <<frames, shared, alone>>

\* No pair of requests is being served.
PairIdle ==
    /\ frames = <<>>
    /\ shared = <<>>
    /\ alone = <<>>

\* The state of the other components, untouched by a run of recommend.
other_vars == <<rank_vars, eval_vars, score_vars, heap_vars, sug_vars,
                build_vars, pair_vars>>
OtherIdle ==
    /\ RankIdle /\ EvalIdle /\ ScoreIdle /\ HeapIdle /\ SugIdle /\ BuildIdle
    /\ PairIdle

\* What a call of rank_tickets, of evaluate, a construction of a score and
\* the needs objects leave alone.
rank_frame ==
    <<ctrl_vars, eval_vars, score_vars, heap_vars,
      sug_vars, build_vars, pair_vars>>
eval_frame ==
    <<ctrl_vars, rank_vars, score_vars, heap_vars,
      sug_vars, build_vars, pair_vars>>
score_frame ==
    <<ctrl_vars, rank_vars, eval_vars, heap_vars,
      sug_vars, build_vars, pair_vars>>
heap_frame ==
    <<ctrl_vars, rank_vars, eval_vars, score_vars,
      sug_vars, build_vars, pair_vars>>
sug_frame ==
    <<ctrl_vars, rank_vars, eval_vars, score_vars,
      heap_vars, build_vars, pair_vars>>
build_frame ==
    <<ctrl_vars, rank_vars, eval_vars, score_vars,
      heap_vars, sug_vars, pair_vars>>
pair_frame ==
    <<ctrl_vars, rank_vars, eval_vars, score_vars,
      heap_vars, sug_vars, build_vars>>

vars == <<ctrl_vars, other_vars>>

\* Variants of the loop bound: one turn too many, one turn too few.
LoopContinues_OneMore(it) == it <= max_iterations
LoopContinues_OneLess(it) == it + 1 < max_iterations

\* `for iteration in range(self.max_iterations)`: the loop body runs again.
LoopContinues(it) == it < max_iterations

\* Variant of the threshold test: strictly above the threshold.
ReachedThreshold_Strict(sc) == sc.overall_score > score_threshold

\* `if scores.overall_score >= self.score_threshold`.
ReachedThreshold(sc) == sc.overall_score >= score_threshold

\* Variant of step 5: the status is returned as the loop left it.
FinalStatus_Kept(status) == status

\* Step 5: a status other than completed is set to completed.
FinalStatus(status) == IF status # "completed" THEN "completed" ELSE status

\* Variant of the try block: it ends before the reflection loop.
TryCovers_SetupOnly(step) == step \in {"extract", "source", "build"}

\* The steps inside the try block of recommend.
TryCovers(step) ==
    step \in {"extract", "source", "build", "evaluate", "reflect", "apply",
              "feedback", "resource", "rebuild", "finalize"}

\* Variant of the loop head: the body is entered without a bound check.
LoopHead_Unbounded(it) == "evaluate"

\* Where control goes at the head of the for loop.
LoopHead(it) == IF LoopContinues(it) THEN "evaluate" ELSE "finalize"

Init ==
    /\ pc = "extract"
    /\ max_iterations \in 0..MaxIterations
    /\ user_needs = extract_from_conversation
    /\ current_needs = extract_from_conversation
    /\ candidate_tickets = 0
    /\ recommendation = NoRecommendation
    /\ iteration = 0
    /\ scores = ZeroScore
    /\ improvement_suggestions = <<>>
    /\ adjusted_params = EmptyDict
    /\ next_id = 1
    /\ returned = NoRecommendation
    /\ exit = "none"
    /\ evaluated = <<>>
    /\ sourcings = <<>>
    /\ reflect_calls = 0
    /\ rebuilds = 0
    /\ responses = [extract |-> "none", reflect |-> "none"]
    /\ OtherIdle

\* No run of recommend is under way.
CtrlIdle ==
    /\ pc = "idle"
    /\ max_iterations = MaxIterations
    /\ user_needs = extract_from_conversation
    /\ current_needs = extract_from_conversation
    /\ candidate_tickets = 0
    /\ recommendation = NoRecommendation
    /\ iteration = 0
    /\ scores = ZeroScore
    /\ improvement_suggestions = <<>>
    /\ adjusted_params = EmptyDict
    /\ next_id = 1
    /\ returned = NoRecommendation
    /\ exit = "none"
    /\ evaluated = <<>>
    /\ sourcings = <<>>
    /\ reflect_calls = 0
    /\ rebuilds = 0
    /\ responses = [extract |-> "none", reflect |-> "none"]

\* An exception raised in `step`: the except handler returns a failed
\* Recommendation carrying the error; outside the try it reaches the caller.
Raise(step) ==
    /\ pc' = "done"
    /\ IF TryCovers(step)
       THEN /\ returned' = ErrorRecommendation(next_id)
            /\ exit' = "except"
       ELSE /\ returned' = NoRecommendation
            /\ exit' = "raised"
    /\ next_id' = next_id + 1

\* 1. user_needs = await self.extract_user_needs(conversation_text)
ExtractUserNeeds ==
    /\ pc = "extract"
    /\ \E k \in DOMAIN ExtractResponses :
         LET r == ExtractResponses[k]
         IN  /\ responses' = [responses EXCEPT !.extract = r.kind]
             /\ IF extract_needs_escapes(r)
                THEN /\ Raise("extract")
                     /\ UNCHANGED user_needs
                ELSE /\ user_needs' = extract_needs(r)
                     /\ pc' = "source"
                     /\ UNCHANGED <<next_id, returned, exit>>
    /\ UNCHANGED <<other_vars, max_iterations, current_needs,
                   candidate_tickets, recommendation, iteration, scores,
                   improvement_suggestions, adjusted_params, evaluated,
                   sourcings, reflect_calls, rebuilds>>

\* 2. candidate_tickets = await self.get_candidate_tickets(user_needs);
\*    no candidates: return a failed Recommendation.
GetCandidateTickets ==
    /\ pc = "source"
    /\ LET r == fetch_matching_tickets(user_needs)
       IN  IF r.fault
           THEN /\ Raise("source")
                /\ UNCHANGED <<candidate_tickets, sourcings>>
           ELSE /\ candidate_tickets' = r.tickets
                /\ sourcings' = Append(sourcings, r.tickets)
                /\ IF r.tickets = 0
                   THEN /\ returned' = EmptyRecommendation(next_id)
                        /\ next_id' = next_id + 1
                        /\ exit' = "empty"
                        /\ pc' = "done"
                   ELSE /\ pc' = "build"
                        /\ UNCHANGED <<returned, next_id, exit>>
    /\ UNCHANGED <<other_vars, responses, max_iterations, user_needs, current_needs, recommendation,
                   iteration, scores, improvement_suggestions, adjusted_params,
                   evaluated, reflect_calls, rebuilds>>

\* 3. recommendation = await self.generate_recommendations(...);
\*    current_needs = user_needs; the for loop starts.
GenerateInitial ==
    /\ pc = "build"
    /\ recommendation' = generate_recommendations(next_id, candidate_tickets)
    /\ next_id' = next_id + 1
    /\ current_needs' = user_needs
    /\ iteration' = 0
    /\ pc' = LoopHead(0)
    /\ UNCHANGED <<other_vars, responses, max_iterations, user_needs, candidate_tickets, scores,
                   improvement_suggestions, adjusted_params, returned, exit,
                   evaluated, sourcings, reflect_calls, rebuilds>>

\* 4.1 evaluate, recommendation.scores = scores; 4.2 threshold test, break.
Evaluate ==
    /\ pc = "evaluate"
    /\ \E j \in Judgements :
         LET r == evaluate(recommendation, j)
         IN  IF r.fault
             THEN /\ Raise("evaluate")
                  /\ UNCHANGED <<recommendation, scores,
                                 improvement_suggestions, evaluated>>
             ELSE /\ scores' = r.scores
                  /\ improvement_suggestions' = r.improvement_suggestions
                  /\ evaluated' = Append(evaluated,
                         [recommendation_id |-> recommendation.recommendation_id,
                          scores |-> r.scores])
                  /\ IF ReachedThreshold(r.scores)
                     THEN /\ recommendation' =
                                [recommendation EXCEPT !.scores = r.scores,
                                                       !.status = "completed"]
                          /\ pc' = "finalize"
                     ELSE /\ recommendation' =
                                [recommendation EXCEPT !.scores = r.scores]
                          /\ pc' = "reflect"
                  /\ UNCHANGED <<returned, exit, next_id>>
    /\ UNCHANGED <<other_vars, responses, max_iterations, user_needs, current_needs,
                   candidate_tickets, iteration, adjusted_params, sourcings,
                   reflect_calls, rebuilds>>

\* 4.3 adjusted_params = await self.reflect_and_improve(...)
Reflect ==
    /\ pc = "reflect"
    /\ \E k \in DOMAIN ReflectResponses :
         LET r == ReflectResponses[k]
         IN  /\ adjusted_params' = reflect_and_adjust(r)
             /\ responses' = [responses EXCEPT !.reflect = ReflectKind(r)]
    /\ reflect_calls' = reflect_calls + 1
    /\ pc' = "apply"
    /\ UNCHANGED <<other_vars, max_iterations, user_needs, current_needs,
                   candidate_tickets, recommendation, iteration, scores,
                   improvement_suggestions, next_id, returned, exit,
                   evaluated, sourcings, rebuilds>>

\* 4.4 current_needs = await self.apply_improvements(...)
ApplyImprovements ==
    /\ pc = "apply"
    /\ LET r == apply_improvements(current_needs, adjusted_params)
       IN  IF r.fault
           THEN /\ Raise("apply")
                /\ UNCHANGED current_needs
           ELSE /\ current_needs' = r.needs
                /\ pc' = "feedback"
                /\ UNCHANGED <<returned, exit, next_id>>
    /\ UNCHANGED <<other_vars, responses, max_iterations, user_needs, candidate_tickets,
                   recommendation, iteration, scores, improvement_suggestions,
                   adjusted_params, evaluated, sourcings, reflect_calls,
                   rebuilds>>

\* 4.5 feedback = await self.create_reflection_feedback(iteration + 1, ...);
\*     recommendation.add_reflection(feedback)
CreateFeedback ==
    /\ pc = "feedback"
    /\ recommendation' =
          add_reflection(recommendation,
              create_reflection_feedback(iteration + 1, scores,
                  improvement_suggestions, adjusted_params))
    /\ pc' = "resource"
    /\ UNCHANGED <<other_vars, responses, max_iterations, user_needs, current_needs,
                   candidate_tickets, iteration, scores,
                   improvement_suggestions, adjusted_params, next_id,
                   returned, exit, evaluated, sourcings, reflect_calls,
                   rebuilds>>

\* 4.6 candidate_tickets = await self.get_candidate_tickets(current_needs)
Resource ==
    /\ pc = "resource"
    /\ LET r == fetch_matching_tickets(current_needs)
       IN  IF r.fault
           THEN /\ Raise("resource")
                /\ UNCHANGED <<candidate_tickets, sourcings>>
           ELSE /\ candidate_tickets' = r.tickets
                /\ sourcings' = Append(sourcings, r.tickets)
                /\ pc' = "rebuild"
                /\ UNCHANGED <<returned, exit, next_id>>
    /\ UNCHANGED <<other_vars, responses, max_iterations, user_needs, current_needs, recommendation,
                   iteration, scores, improvement_suggestions, adjusted_params,
                   evaluated, reflect_calls, rebuilds>>

\* 4.6 recommendation = await self.generate_recommendations(current_needs, ...);
\*     recommendation.status = REFINED; next turn of the for loop.
Rebuild ==
    /\ pc = "rebuild"
    /\ recommendation' =
          [generate_recommendations(next_id, candidate_tickets)
              EXCEPT !.status = "refined"]
    /\ next_id' = next_id + 1
    /\ rebuilds' = rebuilds + 1
    /\ iteration' = iteration + 1
    /\ pc' = LoopHead(iteration + 1)
    /\ UNCHANGED <<other_vars, responses, max_iterations, user_needs, current_needs,
                   candidate_tickets, scores, improvement_suggestions,
                   adjusted_params, returned, exit, evaluated, sourcings,
                   reflect_calls>>

\* 5. status finalised to completed; return recommendation.
Finalize ==
    /\ pc = "finalize"
    /\ recommendation' =
          [recommendation EXCEPT !.status = FinalStatus(@)]
    /\ returned' = recommendation'
    /\ exit' = "normal"
    /\ pc' = "done"
    /\ UNCHANGED <<other_vars, responses, max_iterations, user_needs, current_needs,
                   candidate_tickets, iteration, scores,
                   improvement_suggestions, adjusted_params, next_id,
                   evaluated, sourcings, reflect_calls, rebuilds>>

Next ==
    \/ ExtractUserNeeds
    \/ GetCandidateTickets
    \/ GenerateInitial
    \/ Evaluate
    \/ Reflect
    \/ ApplyImprovements
    \/ CreateFeedback
    \/ Resource
    \/ Rebuild
    \/ Finalize

Spec == Init /\ [][Next]_vars

\* A run in which every awaited call returns or raises: the coroutine is
\* resumed after each await, so a step that can be taken is taken (every
\* step moves pc).
SpecFair == Spec /\ WF_pc(Next)

\* ====================================================== properties
\* The steps of one adjustment cycle (Reflect, apply, feedback, re-source,
\* rebuild).
AdjustingPcs == {"reflect", "apply", "feedback", "resource", "rebuild"}

Below(i) == evaluated[i].scores.overall_score < score_threshold
AllBelow == \A i \in DOMAIN evaluated : Below(i)
ForcedStop == pc = "done" /\ exit = "normal" /\ AllBelow

\* C1: an evaluation with overall_score >= score_threshold is the last thing
\* the loop does: status becomes completed, no Reflect call, re-sourcing or
\* rebuild follows it, and the Recommendation returned is the one just
\* evaluated, carrying that evaluation's scores.
C1_ThresholdStops ==
    \A i \in DOMAIN evaluated :
        ~Below(i) =>
            /\ i = Len(evaluated)
            /\ pc \in {"finalize", "done"}
            /\ exit \in {"none", "normal"}
            /\ recommendation.recommendation_id = evaluated[i].recommendation_id
            /\ recommendation.scores = evaluated[i].scores
            /\ recommendation.status = "completed"
            /\ reflect_calls = i - 1
            /\ rebuilds = i - 1
            /\ Len(sourcings) = i
            /\ (pc = "done" => returned = recommendation)

C1_Witness ==
    /\ pc = "done"
    /\ Len(evaluated) = 1
    /\ ~Below(1)
    /\ returned.status = "completed"
    /\ returned.scores = evaluated[1].scores

\* C2: a run with max_iterations = N makes at most N Reflect calls, at most
\* N rebuilds and at most N evaluations.
C2_AtMostMaxIterations ==
    /\ reflect_calls <= max_iterations
    /\ rebuilds <= max_iterations
    /\ Len(evaluated) <= max_iterations

C2_Witness ==
    /\ pc = "done"
    /\ max_iterations >= 1
    /\ reflect_calls = max_iterations
    /\ rebuilds = max_iterations
    /\ Len(evaluated) = max_iterations

\* C3: when every evaluation is below the threshold, the loop has run
\* exactly max_iterations adjustment cycles (Reflect, apply, rebuild) when
\* recommend returns, and the Recommendation returned is completed.
C3_ExhaustedRunsAllCycles ==
    ForcedStop =>
        /\ Len(evaluated) = max_iterations
        /\ reflect_calls = max_iterations
        /\ rebuilds = max_iterations
        /\ returned.status = "completed"

C3_Witness ==
    /\ ForcedStop
    /\ max_iterations = 2
    /\ rebuilds = 2
    /\ \A i \in DOMAIN evaluated : evaluated[i].scores.overall_score = 70

\* C4: when the loop is exhausted without reaching the threshold, the
\* Recommendation returned is the one evaluated in iteration max_iterations.
C4_ReturnsLastEvaluated ==
    (ForcedStop /\ max_iterations >= 1 /\ Len(evaluated) = max_iterations) =>
        returned.recommendation_id =
            evaluated[Len(evaluated)].recommendation_id

C6_ReturnedStatusFinal ==
    pc = "done" =>
        /\ returned.status \in {"completed", "failed"}
        /\ (exit = "normal" => returned.status = "completed")

C6_Witness ==
    /\ pc = "done"
    /\ exit = "normal"
    /\ max_iterations = 0
    /\ evaluated = <<>>
    /\ returned.status = "completed"

\* C7: no exception reaches the caller: a fault in any step ends in a
\* returned Recommendation with status failed, zero scores and the error
\* recorded.
C7_NoExceptionEscapes ==
    /\ exit # "raised"
    /\ pc = "done" =>
        /\ returned.recommendation_id # 0
        /\ exit \in {"normal", "empty", "except"}
        /\ (exit = "except" =>
               /\ returned.status = "failed"
               /\ returned.scores = ZeroScore
               /\ returned.metadata = "error")

C7_Witness ==
    /\ pc = "done"
    /\ exit = "except"
    /\ reflect_calls >= 1
    /\ returned.status = "failed"

\* C8: whenever a sourcing, initial or after an adjustment, returns no
\* candidates, the request ends failed with zero scores; no completed
\* Recommendation has an empty option list.
C8_EmptySourcingFails ==
    pc = "done" =>
        /\ (\E i \in DOMAIN sourcings : sourcings[i] = 0) =>
               (returned.status = "failed" /\ returned.scores = ZeroScore)
        /\ returned.status = "completed" => returned.options # <<>>

\* C9: when the loop is forced to stop by max_iterations, the overall score
\* of the Recommendation returned is at least that of every Recommendation
\* evaluated in the request.
C9_ReturnsBestSeen ==
    ForcedStop =>
        \A i \in DOMAIN evaluated :
            returned.scores.overall_score >= evaluated[i].scores.overall_score

\* C10: the Recommendation returned counts the adjustment cycles performed
\* and holds one feedback per cycle, numbered 1..k in order.
C10_ReflectionHistoryComplete ==
    (pc = "done" /\ exit = "normal") =>
        /\ returned.reflection_iterations = reflect_calls
        /\ Len(returned.reflection_history) = reflect_calls
        /\ \A i \in DOMAIN returned.reflection_history :
               returned.reflection_history[i].iteration = i
\* C13: every Needs the controller uses, as extracted and as adjusted,
\* has a non-empty priorities list.
C13_PrioritiesNeverEmpty ==
    /\ user_needs.priorities # <<>>
    /\ current_needs.priorities # <<>>

\* C15: a Reflect answer that does not parse, or parses to something other
\* than a map, is applied as the empty map: the Needs stay as they are and
\* the loop goes on to the feedback and the rebuild, with no failure.
C15_MalformedReflectIsEmptyMap ==
    [][(pc = "apply" /\ responses.reflect \in {"not_json", "not_a_dict"})
          => /\ adjusted_params = EmptyDict
             /\ pc' = "feedback"
             /\ exit' = "none"
             /\ current_needs' = current_needs]_vars

\* The ways extraction fails: the call raises, the answer is not JSON, the
\* JSON does not validate as UserNeeds.
ExtractionFailures == {"raises", "not_json", "invalid"}

\* C16: extraction never raises; when it fails the Needs are the fixed
\* default, and the controller goes on to sourcing.
C16_ExtractionFailureGivesDefault ==
    [][pc = "extract"
          => /\ pc' = "source"
             /\ exit' = "none"
             /\ responses'.extract \in ExtractionFailures
                   => user_needs' = extract_from_conversation]_vars

\* A run whose extraction got JSON that does not validate has reached the
\* evaluation of its first Recommendation with the default Needs.
C16_Witness ==
    /\ responses.extract = "invalid"
    /\ pc = "evaluate"
    /\ user_needs = extract_from_conversation
    /\ exit = "none"

\* C23: when every external call returns or raises, every run of recommend
\* stops and returns a Recommendation (completed or failed), whatever
\* max_iterations, scores, candidate sets, judgments and adjustments.
C23_EveryRunReturns ==
    <>(pc = "done" /\ returned.status \in {"completed", "failed"})

\* A run has stopped after a Reflect answer that is not a map; another
\* kind of stop: all max_iterations > 0 cycles were run.
C23_Witness ==
    /\ pc = "done"
    /\ returned.status = "failed"
    /\ responses.reflect = "not_a_dict"
    /\ max_iterations > 0

\* C24: every Recommendation returned with status failed carries a
\* diagnostic (non-empty metadata), for empty candidates and for an
\* internal fault alike.
C24_FailedCarriesDiagnostic ==
    (pc = "done" /\ returned.status = "failed") => returned.metadata # "None"

\* Every segment of a dotted path names a field of the object reached.
PathExists(needs, parts) ==
    LET front   == SubSeq(parts, 1, Len(parts) - 1)
        reached == Descend(needs, front)
    IN  /\ Len(reached) = Len(front)
        /\ parts[Len(parts)] \in DOMAIN GetAt(needs, reached)

\* The items of an adjustment map whose path exists on the needs.
ExistingItems(needs, items) ==
    LET Exists(item) == PathExists(needs, item.path)
    IN  SelectSeq(items, Exists)

\* C25: a key whose dotted path misses a field, as last or as intermediate
\* segment, sets nothing; the other keys of the map are applied and the
\* loop goes on.
C25_MissingPathSetsNothing ==
    [][(pc = "apply" /\ adjusted_params.is_dict
          /\ \A i \in DOMAIN adjusted_params.items :
                adjusted_params.items[i].path[
                    Len(adjusted_params.items[i].path)] \notin ModelMethods)
          => /\ pc' = "feedback"
             /\ current_needs' =
                  apply_improvements(
                      current_needs,
                      Dict(ExistingItems(current_needs,
                                         adjusted_params.items))).needs]_vars

\* C28: a Recommendation returned with status completed has been
\* evaluated: its scores are the evaluator's result for it, not the
\* placeholder it was built with.
C28_CompletedWasEvaluated ==
    (pc = "done" /\ returned.status = "completed") =>
        \E i \in DOMAIN evaluated :
            /\ evaluated[i].recommendation_id = returned.recommendation_id
            /\ evaluated[i].scores = returned.scores

\* ------------------------------------------- rank_tickets, step by step
\* The candidate lists rank_tickets is called with.
TicketLists ==
    UNION { [1..n -> TicketPool] : n \in 0..MaxTickets } \cup {ScenarioTickets}

InitRank ==
    /\ CtrlIdle /\ EvalIdle /\ ScoreIdle /\ HeapIdle /\ SugIdle
    /\ BuildIdle
    /\ PairIdle
    /\ rank_pc = "score"
    /\ tickets \in TicketLists
    /\ \E k \in DOMAIN RankNeedsPool : rank_needs = RankNeedsPool[k]
    /\ scored_tickets = <<>>
    /\ rank_log = <<>>

\* for ticket in tickets: ... scored_tickets.append((ticket, total, reasons))
ScoreTicket ==
    /\ rank_pc = "score"
    /\ Len(scored_tickets) < Len(tickets)
    /\ LET i == Len(scored_tickets) + 1
       IN  scored_tickets' =
               Append(scored_tickets, scored_ticket(i, tickets[i], rank_needs))
    /\ UNCHANGED <<rank_frame, rank_pc, tickets, rank_needs, rank_log>>

\* scored_tickets.sort(key=lambda x: x[1], reverse=True); return
SortScored ==
    /\ rank_pc = "score"
    /\ Len(scored_tickets) = Len(tickets)
    /\ scored_tickets' = sort_reverse(scored_tickets)
    /\ tickets' = argument_after_sort(tickets, scored_tickets')
    /\ rank_log' = Append(rank_log, [tickets |-> tickets,
                                     needs   |-> rank_needs,
                                     result  |-> scored_tickets'])
    /\ rank_pc' = "done"
    /\ UNCHANGED <<rank_frame, rank_needs>>

\* The needs of a later call: those of the last call, of the first call,
\* or needs without preferences.
LaterNeeds == {rank_needs, rank_log[1].needs, RankNeedsPool[4]}

\* rank_tickets is called again on the same processor, with the same
\* list object.
CallAgain ==
    /\ rank_pc = "done"
    /\ Len(rank_log) < MaxCalls
    /\ rank_needs' \in LaterNeeds
    /\ scored_tickets' = <<>>
    /\ rank_pc' = "score"
    /\ UNCHANGED <<rank_frame, tickets, rank_log>>

NextRank == ScoreTicket \/ SortScored \/ CallAgain

SpecRank == InitRank /\ [][NextRank]_vars

\* C17: each of the six factor scores and the weighted total of every
\* scored ticket lie in [0,100] (the total is kept in hundredths).
C17_ScoresInRange ==
    \A i \in DOMAIN scored_tickets :
        /\ \A f \in Factors : scored_tickets[i].reasons[f] \in 0..100
        /\ scored_tickets[i].total \in 0..10000

\* C18: rank_tickets returns a permutation of its input in non-increasing
\* order of total score, tickets of equal total in input order; an empty
\* input gives an empty output.
C18_StableDescendingPermutation ==
    rank_pc = "done" =>
        /\ Len(scored_tickets) = Len(tickets)
        /\ { scored_tickets[i].idx : i \in DOMAIN scored_tickets }
               = DOMAIN tickets
        /\ \A i \in DOMAIN scored_tickets :
               scored_tickets[i].ticket = tickets[scored_tickets[i].idx]
        /\ \A i, j \in DOMAIN scored_tickets :
               i < j =>
                 /\ scored_tickets[i].total >= scored_tickets[j].total
                 /\ scored_tickets[i].total = scored_tickets[j].total
                       => scored_tickets[i].idx < scored_tickets[j].idx
        /\ tickets = <<>> => scored_tickets = <<>>

\* A sorted result with two different tickets of equal total and a pair
\* the sort has exchanged.
C18_Witness ==
    /\ rank_pc = "done"
    /\ \E i, j \in DOMAIN scored_tickets :
          /\ i < j
          /\ scored_tickets[i].total = scored_tickets[j].total
          /\ scored_tickets[i].ticket # scored_tickets[j].ticket
    /\ \E i, j \in DOMAIN scored_tickets :
          i < j /\ scored_tickets[i].idx > scored_tickets[j].idx

\* The candidates differ in price and available seats only.
DifferOnlyInPriceAndSeats ==
    \A i, j \in DOMAIN tickets :
        [tickets[i] EXCEPT !.price = 0, !.available_seats = 0]
          = [tickets[j] EXCEPT !.price = 0, !.available_seats = 0]

\* C19: with max_price set and candidates that differ only in price and
\* seats, every ticket above max_price ranks below every ticket at or
\* below max_price.
C19_OverBudgetRanksBelow ==
    (/\ rank_pc = "done"
     /\ rank_needs.budget.max_price > 0
     /\ rank_needs.budget.min_price = 0
     /\ DifferOnlyInPriceAndSeats)
    => \A i, j \in DOMAIN scored_tickets :
          (/\ scored_tickets[i].ticket.price > rank_needs.budget.max_price
           /\ scored_tickets[j].ticket.price <= rank_needs.budget.max_price)
          => j < i


\* C21: rank_tickets is deterministic and pure: calls with identical
\* (ticket list, Needs) return the same order, totals and factor
\* breakdowns whatever calls came before, and a call changes neither the
\* list nor the Needs it is given.
C21_RankingIsPure ==
    [][/\ \A i, j \in DOMAIN rank_log' :
            (/\ rank_log'[i].tickets = rank_log'[j].tickets
             /\ rank_log'[i].needs = rank_log'[j].needs)
            => rank_log'[i].result = rank_log'[j].result
       /\ rank_pc = "score" => (tickets' = tickets /\ rank_needs' = rank_needs)
      ]_vars

\* A list the sort reorders has been ranked twice with the same Needs,
\* a call with other Needs in between.
C21_Witness ==
    /\ Len(rank_log) >= 3
    /\ rank_log[1].needs = rank_log[3].needs
    /\ rank_log[1].tickets = rank_log[3].tickets
    /\ rank_log[2].needs # rank_log[1].needs
    /\ rank_log[2].result # rank_log[1].result
    /\ \E i \in DOMAIN scored_tickets : scored_tickets[i].idx # i

\* ------------------------------------- RecommendationScore, construction
\* The calls RecommendationScore(...) with and without overall_score.
ScoreKwargsPool ==
    { ScoreKwargs(nm, co, pr, TRUE, ov) :
        nm \in DimensionScores, co \in DimensionScores,
        pr \in DimensionScores, ov \in OverallScores }
    \cup { ScoreKwargs(nm, co, pr, FALSE, 0) :
             nm \in DimensionScores, co \in DimensionScores,
             pr \in DimensionScores }

InitScore ==
    /\ CtrlIdle /\ RankIdle /\ EvalIdle /\ HeapIdle /\ SugIdle
    /\ BuildIdle
    /\ PairIdle
    /\ score_pc = "new"
    /\ score_kwargs \in ScoreKwargsPool
    /\ score_result = RecommendationScore_init(ScoreKwargs(0, 0, 0, TRUE, 0))

\* RecommendationScore(**kwargs)
ConstructScore ==
    /\ score_pc = "new"
    /\ score_result' = RecommendationScore_init(score_kwargs)
    /\ score_pc' = "done"
    /\ UNCHANGED <<score_frame, score_kwargs>>

NextScore == ConstructScore

SpecScore == InitScore /\ [][NextScore]_vars

\* C20: a score object built without overall_score has overall =
\* 0.5*needs_match + 0.3*completeness + 0.2*practicality (in tenths:
\* 5, 3, 2); an overall score that is passed is kept as given.
C20_OverallWeightedOrKept ==
    score_pc = "done" =>
        IF "overall_score" \in score_kwargs.given
        THEN score_kwargs.overall_score \in 0..100 =>
                /\ ~score_result.fault
                /\ score_result.value.overall_score
                      = 10 * score_kwargs.overall_score
        ELSE /\ ~score_result.fault
             /\ score_result.value.overall_score
                   = 5 * score_kwargs.needs_match_score
                     + 3 * score_kwargs.completeness_score
                     + 2 * score_kwargs.practicality_score

\* ----------------------------------------------- evaluate, step by step
\* The needs evaluate is called with.
EvalNeedsPool == { RankNeedsPool[k] : k \in {1, 2, 4} }

InitEval ==
    /\ CtrlIdle /\ RankIdle /\ ScoreIdle /\ HeapIdle /\ SugIdle
    /\ BuildIdle
    /\ PairIdle
    /\ eval_pc = "start"
    /\ eval_llm \in BOOLEAN
    /\ eval_options \in EvalOptionLists
    /\ eval_needs \in EvalNeedsPool
    /\ eval_dims = NoDims
    /\ eval_result = NoResult
    /\ eval_trace = <<>>

\* if not recommendation.options: return zero scores and one directive.
EvaluateEmpty ==
    /\ eval_pc = "start"
    /\ HasNoOptions(eval_options)
    /\ LET c == RecommendationScore_init(ScoreKwargs(0, 0, 0, TRUE, 0))
       IN  eval_result' = [fault |-> c.fault, scores |-> c.value,
                           improvement_suggestions |-> NoOptionsDirective]
    /\ eval_pc' = "done"
    /\ UNCHANGED <<eval_frame, eval_llm, eval_options, eval_needs, eval_dims,
                   eval_trace>>

\* One of the three _evaluate_* calls: the judge when an LLM client is
\* set, the rules otherwise.
EvaluateDimension(field, dimension, rule_score, next) ==
    /\ IF eval_llm
       THEN \E k \in DOMAIN JudgeResponses :
              LET r == JudgeResponses[k]
              IN  /\ eval_dims' = [eval_dims EXCEPT ![field] = llm_evaluate(r)]
                  /\ eval_trace' = Append(eval_trace,
                         [dimension |-> dimension, judge |-> r.kind,
                          score |-> llm_evaluate(r)])
       ELSE /\ eval_dims' = [eval_dims EXCEPT ![field] = rule_score]
            /\ eval_trace' = Append(eval_trace,
                   [dimension |-> dimension, judge |-> "rules",
                    score |-> rule_score])
    /\ eval_pc' = next
    /\ UNCHANGED <<eval_frame, eval_llm, eval_options, eval_needs,
                   eval_result>>

\* needs_match_score = await self._evaluate_needs_match(...)
EvaluateNeedsMatch ==
    /\ eval_pc = "start"
    /\ ~HasNoOptions(eval_options)
    /\ EvaluateDimension("needs_match_score", "needs_match",
                         local_needs_match(eval_options, eval_needs),
                         "completeness")

\* completeness_score = await self._evaluate_completeness(...)
EvaluateCompleteness ==
    /\ eval_pc = "completeness"
    /\ EvaluateDimension("completeness_score", "completeness",
                         local_completeness(eval_options, eval_needs),
                         "practicality")

\* practicality_score = await self._evaluate_practicality(...)
EvaluatePracticality ==
    /\ eval_pc = "practicality"
    /\ EvaluateDimension("practicality_score", "practicality",
                         local_practicality(eval_options, eval_needs),
                         "construct")

\* scores = RecommendationScore(needs_match_score=..., completeness_score=
\* ..., practicality_score=...): raises when construction fails; the
\* suggestions of line 65 come only after it.
ConstructScores ==
    /\ eval_pc = "construct"
    /\ LET c == RecommendationScore_init(
                   ScoreKwargs(eval_dims.needs_match_score,
                               eval_dims.completeness_score,
                               eval_dims.practicality_score, FALSE, 0))
       IN  IF c.fault
           THEN /\ eval_result' = [NoResult EXCEPT !.fault = TRUE]
                /\ eval_pc' = "done"
           ELSE /\ eval_result' = [NoResult EXCEPT !.scores = c.value]
                /\ eval_pc' = "suggest"
    /\ UNCHANGED <<eval_frame, eval_llm, eval_options, eval_needs, eval_dims,
                   eval_trace>>

NextEval ==
    \/ EvaluateEmpty
    \/ EvaluateNeedsMatch
    \/ EvaluateCompleteness
    \/ EvaluatePracticality
    \/ ConstructScores

SpecEval == InitEval /\ [][NextEval]_vars

\* C11: for an empty option list evaluate returns all four scores 0 and
\* exactly one directive, with no dimension evaluated and no judge call
\* before, with or without an LLM client.
C11_EmptyOptionsZeroScores ==
    (eval_options = <<>> /\ eval_pc \notin {"idle", "start"}) =>
        /\ eval_pc = "done"
        /\ ~eval_result.fault
        /\ eval_result.scores = ZeroScore
        /\ Len(eval_result.improvement_suggestions) = 1
        /\ eval_trace = <<>>
        /\ eval_dims = NoDims

\* evaluate has returned for an empty option list with an LLM client set.
C11_Witness ==
    /\ eval_options = <<>>
    /\ eval_llm
    /\ eval_pc = "done"
    /\ eval_result.improvement_suggestions = NoOptionsDirective

\* C12: a judge answer that cannot be parsed into a score is replaced by
\* the low-confidence default 30, and evaluate then returns, without
\* raising, exactly one directive.
C12_UnparsableJudgeGivesLowDefault ==
    /\ \A i \in DOMAIN eval_trace :
          eval_trace[i].judge = "unparsable" => eval_trace[i].score = 30
    /\ (eval_pc = "done"
          /\ \E i \in DOMAIN eval_trace : eval_trace[i].judge = "unparsable")
        => /\ ~eval_result.fault
           /\ Len(eval_result.improvement_suggestions) = 1

\* The completeness score as the sum of its parts: base 75, the
\* option-count bonus, 5 per distinct transport mode up to 10, 5 for a
\* price range of at most half the average price, 5 for three or more
\* distinct departure hours, limited to [0,100].  `zero_range` tells
\* whether a price range of 0 (a single option's included) earns the 5.
CompletenessByParts(options, zero_range) ==
    LET n      == Len(options)
        prices == {options[i].price : i \in 1..n}
        range  == CHOOSE d \in 0..2000 :
                     \E x \in prices, y \in prices :
                        /\ d = x - y
                        /\ \A z \in prices : y <= z /\ z <= x
        count  == IF n >= 5 THEN 10 ELSE IF n >= 3 THEN 5
                  ELSE IF n = 1 THEN -10 ELSE 0
        modes  == Cardinality({options[i].transport_type : i \in 1..n})
        hours  == Cardinality({options[i].departure_time : i \in 1..n})
        sum    == 75 + count
                  + (IF 5 * modes > 10 THEN 10 ELSE 5 * modes)
                  + (IF 2 * n * range <= SumPrices(options)
                        /\ (zero_range \/ range > 0)
                     THEN 5 ELSE 0)
                  + (IF hours >= 3 THEN 5 ELSE 0)
    IN  IF sum > 100 THEN 100 ELSE IF sum < 0 THEN 0 ELSE sum

\* The rules have scored the completeness of a non-empty option list.
LocalCompletenessScored ==
    /\ ~eval_llm
    /\ eval_options # <<>>
    /\ eval_pc \in {"practicality", "construct", "done"}

\* C27 as stated: on the rule path the completeness score of a non-empty
\* list is the sum of the parts, a price range of 0 earning the 5 too.
C27_CompletenessZeroRangeIncluded ==
    LocalCompletenessScored =>
        eval_dims.completeness_score = CompletenessByParts(eval_options, TRUE)

\* C27: on the rule path the completeness score of a non-empty list is
\* the sum of the parts, the 5 for the price range given only when the
\* range is above 0 and at most half the average price.
C27_CompletenessByParts ==
    LocalCompletenessScored =>
        eval_dims.completeness_score = CompletenessByParts(eval_options, FALSE)

\* The rules have scored two options of the same price: 75 + 0 + 5.
C27_Witness ==
    /\ LocalCompletenessScored
    /\ Len(eval_options) = 2
    /\ eval_options[1].price = eval_options[2].price
    /\ eval_dims.completeness_score = 80

\* ------------------------------------ the needs objects of one run
InitHeap ==
    /\ CtrlIdle /\ RankIdle /\ EvalIdle /\ ScoreIdle /\ SugIdle
    /\ BuildIdle
    /\ PairIdle
    /\ heap_pc = "run"
    /\ \E k \in DOMAIN ExtractResponses :
          LET needs == extract_needs(ExtractResponses[k])
          IN  /\ heap = alloc_needs(<<>>, needs)
              /\ snapshots = <<needs>>
    /\ needs_chain = <<1>>
    /\ applied_params = <<>>

\* current_needs = await self.apply_improvements(recommendation,
\* current_needs, adjusted_params), on the objects.
ApplyOnHeap ==
    /\ heap_pc = "run"
    /\ Len(applied_params) < MaxApplies
    /\ \E k \in DOMAIN ReflectResponses :
         LET ap == reflect_and_adjust(ReflectResponses[k])
             r  == heap_apply_improvements(
                       heap, needs_chain[Len(needs_chain)], ap)
         IN  /\ heap' = r.heap
             /\ applied_params' = Append(applied_params, ap)
             /\ IF r.fault
                THEN /\ heap_pc' = "failed"
                     /\ UNCHANGED <<needs_chain, snapshots>>
                ELSE /\ needs_chain' = Append(needs_chain, r.needs)
                     /\ snapshots' =
                           Append(snapshots, deep_value(r.heap, r.needs))
                     /\ UNCHANGED heap_pc
    /\ UNCHANGED heap_frame

NextHeap == ApplyOnHeap

SpecHeap == InitHeap /\ [][NextHeap]_vars

\* C14: apply_improvements leaves the Needs it is given as they were: the
\* extracted Needs and every earlier iteration's Needs, nested budget and
\* time window included, keep the value they had when made; each new copy
\* is the previous Needs with the adjustments applied.
C14_EarlierNeedsUnchanged ==
    /\ \A k \in DOMAIN needs_chain :
          deep_value(heap, needs_chain[k]) = snapshots[k]
    /\ \A k \in DOMAIN needs_chain :
          k > 1 => snapshots[k] =
                     apply_improvements(snapshots[k - 1],
                                        applied_params[k - 1]).needs

\* Two adjustments have been applied, the first changing the nested
\* budget, the second changing the Needs again.
C14_Witness ==
    /\ Len(needs_chain) >= 3
    /\ snapshots[2].budget # snapshots[1].budget
    /\ snapshots[3] # snapshots[2]

\* ------------------------------- the suggestion step of evaluate
InitSuggest ==
    /\ CtrlIdle /\ RankIdle /\ EvalIdle /\ ScoreIdle /\ HeapIdle
    /\ BuildIdle
    /\ PairIdle
    /\ sug_pc = "score"
    /\ sug_llm \in BOOLEAN
    /\ sug_options \in EvalOptionLists \ {<<>>}
    /\ sug_needs \in SuggestNeedsPool
    /\ sug_scores = ZeroScore
    /\ sug_result = <<>>

\* The three _evaluate_* calls and a scores object built from them with
\* an overall score supplied (0 for the weighted sum).
ScoreOptions ==
    /\ sug_pc = "score"
    /\ \E ov \in OverallScores :
         \E k1 \in DOMAIN JudgeResponses, k2 \in DOMAIN JudgeResponses,
            k3 \in DOMAIN JudgeResponses :
           LET nm == IF sug_llm THEN llm_evaluate(JudgeResponses[k1])
                     ELSE local_needs_match(sug_options, sug_needs)
               co == IF sug_llm THEN llm_evaluate(JudgeResponses[k2])
                     ELSE local_completeness(sug_options, sug_needs)
               pr == IF sug_llm THEN llm_evaluate(JudgeResponses[k3])
                     ELSE local_practicality(sug_options, sug_needs)
           IN  sug_scores' =
                 RecommendationScore_init(ScoreKwargs(nm, co, pr, TRUE, ov)).value
    /\ sug_pc' = "suggest"
    /\ UNCHANGED <<sug_frame, sug_llm, sug_options, sug_needs, sug_result>>

\* improvement_suggestions = await self._generate_improvement_suggestions(
\* recommendation, user_needs, scores)
GenerateSuggestions ==
    /\ sug_pc = "suggest"
    /\ IF sug_llm
       THEN \E k \in DOMAIN SuggestionResponses :
              sug_result' =
                  generate_improvement_suggestions(SuggestionResponses[k])
       ELSE sug_result' =
                local_suggestions(sug_options, sug_needs, sug_scores)
    /\ sug_pc' = "done"
    /\ UNCHANGED <<sug_frame, sug_llm, sug_options, sug_needs, sug_scores>>

NextSuggest == ScoreOptions \/ GenerateSuggestions

SpecSuggest == InitSuggest /\ [][NextSuggest]_vars

C30_NoDiversityDirectiveByRules ==
    (~sug_llm /\ sug_pc \in {"suggest", "done"}) =>
        /\ sug_scores.completeness_score >= 70
        /\ \A i \in DOMAIN sug_result :
              sug_result[i] \notin DiversityDirectives

\* The rules have returned directives for a single option, whose
\* completeness is exactly 70, asked for by needs naming two modes.
C30_Witness ==
    /\ ~sug_llm
    /\ sug_pc = "done"
    /\ Len(sug_options) = 1
    /\ Cardinality(sug_needs.preferred_transport_types) = 2
    /\ sug_scores.completeness_score = 70
    /\ sug_result # <<>>

\* ------------------------------------- one Recommendation, once built
BuildTicketLists == TicketLists \cup LongLists

InitBuild ==
    /\ CtrlIdle /\ RankIdle /\ EvalIdle /\ ScoreIdle /\ HeapIdle /\ SugIdle
    /\ PairIdle
    /\ build_pc = "build"
    /\ build_tickets \in BuildTicketLists
    /\ \E k \in {1, 3, 4} : build_needs = RankNeedsPool[k]
    /\ build_rec = NoRecommendation
    /\ build_updates = 0

\* recommendation = await self.generate_recommendations(...)
GenerateRecommendations ==
    /\ build_pc = "build"
    /\ LET b == build_options(rank_tickets(build_tickets, build_needs))
       IN  IF b.fault
           THEN /\ build_pc' = "raised"
                /\ UNCHANGED build_rec
           ELSE /\ build_pc' = "built"
                /\ build_rec' = [generate_recommendations(1, 0)
                                    EXCEPT !.options = b.options]
    /\ UNCHANGED <<build_frame, build_tickets, build_needs, build_updates>>

\* recommendation.scores = scores
AssignScores ==
    /\ build_pc = "built"
    /\ build_updates < MaxUpdates
    /\ \E x \in JudgeScores :
          build_rec' = [build_rec EXCEPT
                           !.scores = RecommendationScore(x, x, x, x)]
    /\ build_updates' = build_updates + 1
    /\ UNCHANGED <<build_frame, build_pc, build_tickets, build_needs>>

\* recommendation.status = RecommendationStatus.COMPLETED / REFINED
AssignStatus ==
    /\ build_pc = "built"
    /\ build_updates < MaxUpdates
    /\ \E status \in {"completed", "refined"} :
          build_rec' = [build_rec EXCEPT !.status = status]
    /\ build_updates' = build_updates + 1
    /\ UNCHANGED <<build_frame, build_pc, build_tickets, build_needs>>

\* recommendation.add_reflection(feedback)
AddReflection ==
    /\ build_pc = "built"
    /\ build_updates < MaxUpdates
    /\ build_rec' =
          add_reflection(build_rec,
                         [iteration |-> build_rec.reflection_iterations + 1])
    /\ build_updates' = build_updates + 1
    /\ UNCHANGED <<build_frame, build_pc, build_tickets, build_needs>>

NextBuild ==
    \/ GenerateRecommendations
    \/ AssignScores
    \/ AssignStatus
    \/ AddReflection

SpecBuild == InitBuild /\ [][NextBuild]_vars

\* C29: a Recommendation built from n ranked candidates holds the
\* min(10, n) highest ranked tickets in ranking order, ranks 1..min(10, n)
\* and option scores that never increase down the list; once built, its
\* option list is not changed.
C29_TopTenInRankingOrder ==
    /\ [](build_pc = "built" =>
            LET ranked  == rank_tickets(build_tickets, build_needs)
                n       == Len(ranked)
                k       == IF n < 10 THEN n ELSE 10
                options == build_rec.options
            IN  /\ Len(options) = k
                /\ \A i \in 1..k :
                      /\ options[i].ticket = ranked[i].ticket
                      /\ options[i].score = ranked[i].total
                      /\ options[i].rank = i
                      /\ i < k => options[i].score >= options[i + 1].score)
    /\ [][build_pc = "built" => build_rec'.options = build_rec.options]_vars

\* A Recommendation built from twelve candidates holds ten options of
\* falling score and has had a reflection added and its status set.
C29_Witness ==
    /\ build_pc = "built"
    /\ Len(build_tickets) = 12
    /\ Len(build_rec.options) = 10
    /\ build_rec.options[1].score > build_rec.options[10].score
    /\ build_rec.reflection_history # <<>>
    /\ build_rec.status = "completed"

\* ------------------------------------- two requests on one engine
\* create_recommendation (recommendation_api.py 83-118) awaits
\* engine.recommend on the single global engine; a second request may run
\* whenever the first is suspended.  A list held by a Recommendation is an
\* address into shared.lists; address 1 is the default `[]` written in
\* the class body of Recommendation.

\* max_iterations of the engine the two requests share.
PairIterations == 1

Requests == {1, 2}

\* The answers given to the calls of the two requests.
PairExtracts == {4, 5}
PairJudgements == {j \in Judgements : j.overall # 70}
PairReflects == {3, 4, 5}

\* Variant: every instance holds the list object of the class body.
field_default_Shared(lists) == [lists |-> lists, at |-> 1]

\* reflection_history: List[ReflectionFeedback] = []: pydantic gives each
\* instance a copy of the default.
field_default(lists) == [lists |-> Append(lists, <<>>), at |-> Len(lists) + 1]

\* Recommendation(recommendation_id=str(uuid.uuid4()), ...): a fresh id
\* and the instance's reflection_history.
construct(sh) ==
    LET d == field_default(sh.lists)
    IN  [id     |-> sh.next_uuid,
         at     |-> d.at,
         shared |-> [sh EXCEPT !.next_uuid = @ + 1, !.lists = d.lists]]

\* The local variables of a call of recommend that has not started.
NewFrame ==
    [pc                      |-> "extract",
     user_needs              |-> extract_from_conversation,
     current_needs           |-> extract_from_conversation,
     candidate_tickets       |-> 0,
     recommendation          |-> NoRecommendation,
     history                 |-> 0,
     iteration               |-> 0,
     scores                  |-> ZeroScore,
     improvement_suggestions |-> <<>>,
     adjusted_params         |-> EmptyDict,
     returned                |-> NoRecommendation,
     returned_history        |-> 0]

NewShared ==
    [max_iterations |-> PairIterations,
     lists          |-> << <<>> >>,
     next_uuid      |-> 1,
     cache          |-> {}]

\* The except handler of recommend: a failed Recommendation is returned.
step_except(f, sh) ==
    LET c == construct(sh)
    IN  [frame  |-> [f EXCEPT !.pc = "returned",
                              !.returned = ErrorRecommendation(c.id),
                              !.returned_history = c.at],
         shared |-> c.shared]

\* for iteration in range(self.max_iterations)
pair_loop_head(it, sh) ==
    IF it < sh.max_iterations THEN "evaluate" ELSE "finalize"

\* 1. user_needs = await self.extract_user_needs(conversation_text)
step_extract(f, sh, k) ==
    LET r == ExtractResponses[k]
    IN  IF extract_needs_escapes(r) THEN step_except(f, sh)
        ELSE [frame  |-> [f EXCEPT !.user_needs = extract_needs(r),
                                   !.pc = "source"],
              shared |-> sh]

\* 2. candidate_tickets = await self.get_candidate_tickets(user_needs)
step_source(f, sh) ==
    LET r == fetch_matching_tickets(f.user_needs)
        c == construct(sh)
    IN  IF r.fault THEN step_except(f, sh)
        ELSE IF r.tickets = 0
        THEN [frame  |-> [f EXCEPT !.candidate_tickets = 0,
                                   !.pc = "returned",
                                   !.returned = EmptyRecommendation(c.id),
                                   !.returned_history = c.at],
              shared |-> c.shared]
        ELSE [frame  |-> [f EXCEPT !.candidate_tickets = r.tickets,
                                   !.pc = "build"],
              shared |-> sh]

\* 3. recommendation = await self.generate_recommendations(...)
step_build(f, sh) ==
    LET c == construct(sh)
    IN  [frame  |-> [f EXCEPT
                       !.recommendation =
                           generate_recommendations(c.id, f.candidate_tickets),
                       !.history = c.at,
                       !.current_needs = f.user_needs,
                       !.iteration = 0,
                       !.pc = pair_loop_head(0, sh)],
         shared |-> c.shared]

\* 4.1, 4.2 evaluate and the threshold test
step_evaluate(f, sh, j) ==
    LET r == evaluate(f.recommendation, j)
    IN  IF r.fault THEN step_except(f, sh)
        ELSE [frame  |-> [f EXCEPT
                            !.scores = r.scores,
                            !.improvement_suggestions =
                                r.improvement_suggestions,
                            !.recommendation =
                                IF ReachedThreshold(r.scores)
                                THEN [@ EXCEPT !.scores = r.scores,
                                               !.status = "completed"]
                                ELSE [@ EXCEPT !.scores = r.scores],
                            !.pc = IF ReachedThreshold(r.scores)
                                   THEN "finalize" ELSE "reflect"],
              shared |-> sh]

\* 4.3 adjusted_params = await self.reflect_and_improve(...)
step_reflect(f, sh, k) ==
    [frame  |-> [f EXCEPT
                   !.adjusted_params = reflect_and_adjust(ReflectResponses[k]),
                   !.pc = "apply"],
     shared |-> sh]

\* 4.4 current_needs = await self.apply_improvements(...)
step_apply(f, sh) ==
    LET r == apply_improvements(f.current_needs, f.adjusted_params)
    IN  IF r.fault THEN step_except(f, sh)
        ELSE [frame  |-> [f EXCEPT !.current_needs = r.needs,
                                   !.pc = "feedback"],
              shared |-> sh]

\* 4.5 recommendation.add_reflection(feedback): the append goes to the
\* list object the Recommendation holds.
step_feedback(f, sh) ==
    LET feedback == create_reflection_feedback(
                        f.iteration + 1, f.scores, f.improvement_suggestions,
                        f.adjusted_params)
    IN  [frame  |-> [f EXCEPT
                       !.recommendation.reflection_iterations = @ + 1,
                       !.pc = "resource"],
         shared |-> [sh EXCEPT !.lists[f.history] = Append(@, feedback)]]

\* 4.6 candidate_tickets = await self.get_candidate_tickets(current_needs)
step_resource(f, sh) ==
    LET r == fetch_matching_tickets(f.current_needs)
    IN  IF r.fault THEN step_except(f, sh)
        ELSE [frame  |-> [f EXCEPT !.candidate_tickets = r.tickets,
                                   !.pc = "rebuild"],
              shared |-> sh]

\* 4.6 recommendation = await self.generate_recommendations(...), REFINED
step_rebuild(f, sh) ==
    LET c == construct(sh)
    IN  [frame  |-> [f EXCEPT
                       !.recommendation =
                           [generate_recommendations(c.id, f.candidate_tickets)
                               EXCEPT !.status = "refined"],
                       !.history = c.at,
                       !.iteration = @ + 1,
                       !.pc = pair_loop_head(f.iteration + 1, sh)],
         shared |-> c.shared]

\* 5. the status is finalised and the Recommendation returned
step_finalize(f, sh) ==
    LET rec == [f.recommendation EXCEPT !.status = FinalStatus(@)]
    IN  [frame  |-> [f EXCEPT !.recommendation = rec,
                              !.returned = rec,
                              !.returned_history = f.history,
                              !.pc = "returned"],
         shared |-> sh]

\* recommendation_cache[recommendation.recommendation_id] = recommendation
step_cache(f, sh, r) ==
    LET id == f.returned.recommendation_id
    IN  [frame  |-> [f EXCEPT !.pc = "done"],
         shared |-> [sh EXCEPT !.cache =
                        {c \in @ : c.id # id} \cup
                        {[id |-> id, request |-> r]}]]

InitPair ==
    /\ CtrlIdle /\ RankIdle /\ EvalIdle /\ ScoreIdle /\ HeapIdle /\ SugIdle
    /\ BuildIdle
    /\ frames = [r \in Requests |-> NewFrame]
    /\ shared = NewShared
    /\ alone = [r \in Requests |-> [frame |-> NewFrame, shared |-> NewShared]]

\* Request r takes a step, in the pair and in its run alone.
Advance(r, together, single) ==
    /\ frames' = [frames EXCEPT ![r] = together.frame]
    /\ shared' = together.shared
    /\ alone' = [alone EXCEPT ![r] = single]
    /\ UNCHANGED pair_frame

PairExtractUserNeeds(r) ==
    /\ frames[r].pc = "extract"
    /\ \E k \in PairExtracts :
          Advance(r, step_extract(frames[r], shared, k),
                     step_extract(alone[r].frame, alone[r].shared, k))

PairGetCandidateTickets(r) ==
    /\ frames[r].pc = "source"
    /\ Advance(r, step_source(frames[r], shared),
                  step_source(alone[r].frame, alone[r].shared))

PairGenerateInitial(r) ==
    /\ frames[r].pc = "build"
    /\ Advance(r, step_build(frames[r], shared),
                  step_build(alone[r].frame, alone[r].shared))

PairEvaluate(r) ==
    /\ frames[r].pc = "evaluate"
    /\ \E j \in PairJudgements :
          Advance(r, step_evaluate(frames[r], shared, j),
                     step_evaluate(alone[r].frame, alone[r].shared, j))

PairReflect(r) ==
    /\ frames[r].pc = "reflect"
    /\ \E k \in PairReflects :
          Advance(r, step_reflect(frames[r], shared, k),
                     step_reflect(alone[r].frame, alone[r].shared, k))

PairApplyImprovements(r) ==
    /\ frames[r].pc = "apply"
    /\ Advance(r, step_apply(frames[r], shared),
                  step_apply(alone[r].frame, alone[r].shared))

PairCreateFeedback(r) ==
    /\ frames[r].pc = "feedback"
    /\ Advance(r, step_feedback(frames[r], shared),
                  step_feedback(alone[r].frame, alone[r].shared))

PairResource(r) ==
    /\ frames[r].pc = "resource"
    /\ Advance(r, step_resource(frames[r], shared),
                  step_resource(alone[r].frame, alone[r].shared))

PairRebuild(r) ==
    /\ frames[r].pc = "rebuild"
    /\ Advance(r, step_rebuild(frames[r], shared),
                  step_rebuild(alone[r].frame, alone[r].shared))

PairFinalize(r) ==
    /\ frames[r].pc = "finalize"
    /\ Advance(r, step_finalize(frames[r], shared),
                  step_finalize(alone[r].frame, alone[r].shared))

PairCache(r) ==
    /\ frames[r].pc = "returned"
    /\ Advance(r, step_cache(frames[r], shared, r),
                  step_cache(alone[r].frame, alone[r].shared, r))

NextPair ==
    \E r \in Requests :
        \/ PairExtractUserNeeds(r)
        \/ PairGetCandidateTickets(r)
        \/ PairGenerateInitial(r)
        \/ PairEvaluate(r)
        \/ PairReflect(r)
        \/ PairApplyImprovements(r)
        \/ PairCreateFeedback(r)
        \/ PairResource(r)
        \/ PairRebuild(r)
        \/ PairFinalize(r)
        \/ PairCache(r)

SpecPair == InitPair /\ [][NextPair]_vars

\* A Recommendation as its reader sees it: its reflection history is the
\* content of the list it holds, its id left aside (uuid4 is random).
SeenRecommendation(rec, at, lists) ==
    [rec EXCEPT !.recommendation_id = 0,
                !.reflection_history = IF at = 0 THEN <<>> ELSE lists[at]]

\* The local variables of a call as the call sees them.
SeenFrame(f, lists) ==
    [f EXCEPT !.recommendation =
                  SeenRecommendation(f.recommendation, f.history, lists),
              !.returned =
                  SeenRecommendation(f.returned, f.returned_history, lists),
              !.history = 0,
              !.returned_history = 0]

\* C22: of two requests interleaved on one engine each sees, at every
\* step and in what it returns, the Needs, Recommendation, options and
\* reflection history it sees when run alone with the same answers; and
\* the cache entry under the id it returned is its own.
C22_RequestsDoNotInterfere ==
    \A r \in Requests :
        /\ SeenFrame(frames[r], shared.lists)
             = SeenFrame(alone[r].frame, alone[r].shared.lists)
        /\ frames[r].pc = "done" =>
             \A c \in shared.cache :
                 c.id = frames[r].returned.recommendation_id => c.request = r

\* Both requests have returned after a reflection each, with different
\* adjusted Needs, and each drew ids while the other was under way.
C22_Witness ==
    /\ \A r \in Requests :
          /\ frames[r].pc = "done"
          /\ frames[r].iteration >= 1
          /\ frames[r].returned.status = "completed"
          /\ frames[r].returned.recommendation_id
               # alone[r].frame.returned.recommendation_id
    /\ frames[1].current_needs # frames[2].current_needs

====
